---- MODULE Spec2Model ----
(***************************************************************************)
(* Model of the streaming session orchestrator of wimjan123/translate:     *)
(* the per-socket connection handlers of src/src/server.ts, the polish     *)
(* HTTP route of the same file, and LivePolishingManager of                *)
(* src/src/lib/polishing-buffer.ts, all running against one shared store.  *)
(*                                                                         *)
(* Node.js runs each handler synchronously up to its next `await`; every   *)
(* action below is one such synchronous run: the completion of the awaited *)
(* store / provider call together with the code that follows it up to the  *)
(* next await (or the handler's return).                                   *)
(***************************************************************************)
EXTENDS Integers, Sequences, FiniteSets, TLC

\* ------------------------------------------------------------------ bounds
MaxSegs == 5        \* segments persisted in one behaviour
MaxFaults == 1      \* store operations that fail in one behaviour
MaxSessions == 2    \* session rows created in one behaviour
MaxChunks == 2      \* audio chunks received by the connection
MaxConns == 3       \* upstream connections opened by the connection
MaxTranscripts == 2 \* final transcripts of a connection whose lifecycle is checked
MaxWords == 3       \* words of a final transcript
MaxCacheSize == 2   \* entries the translation cache keeps (1000 in the code)
MaxReplySegs == 2   \* segments of a batch reply built in one of the two formats
MaxReplyLen == 3    \* characters of a batch reply of any shape

\* ------------------------------------------------------- program constants
AutoBatchThreshold == 5   \* polishing-buffer.ts:179  `unpolishedSegments.length < 5`
DefaultBatchSize == 5     \* server.ts:260 `polishingBatchSize = 5`

SessionIds == 1 .. MaxSessions
Attempts == {"manual", "timer"}   \* concurrent attemptPolishing invocations
BatchSizes == {3, DefaultBatchSize}          \* settings.ts:17 allows 3-10
NULL == "null"

VARIABLES
  \* ---- the persisted store (prisma)
  sessions,                 \* Session rows, by id
  segments,                 \* TranscriptSegment rows, in creation order
  nextSessionId,            \* next Session id the store hands out
  faults,                   \* store operations that have failed so far
  \* ---- LivePolishingManager (singleton of the server process)
  activePolishingSessions,  \* Set<string> of session ids
  polishingTimers,          \* Map<string, Timeout>: session id -> timer handle
  intervals,                \* the live setInterval timers: handle and session id
  att,                      \* attemptPolishing invocations, by slot
  \* ---- POST /api/sessions/:id/polish
  route,
  \* ---- one socket connection (closure variables of io.on('connection'))
  polishingBatchSize,       \* handshake auth value
  sessionMode,              \* handshake auth value
  enableLivePolishing,      \* handshake auth value
  sessionCreated,
  dbSession,                \* id of the Session row held in dbSession, 0 for null
  th,                       \* Transcript handler invocations, by slot
  socket,                   \* "connected" until the disconnect event
  ch,                       \* audio-chunk handler invocations, by slot
  nextChunk,                \* payload of the next audio chunk (they are numbered)
  bufferedChunks,           \* history: payloads that were stored in pendingAudioChunk
  disc,                     \* the disconnect handler
  cmd,                      \* the polish-current-session handler
  dg,                       \* the upstream connections created so far, in order
  dgConnection,             \* index in dg of the connection held, 0 for null
  dgConnectionReady,
  pendingAudioChunk,        \* payload, 0 for null
  isRecreatingConnection,
  dgErrorEmitted,           \* history: an Error handler emitted 'error' and no
                            \* audio-chunk handler has returned since
  \* ---- the instant-translation module
  translationCache,         \* Map<string, string>, entries in insertion order
  tr,                       \* translateWithLibreTranslate invocations, by slot
  stored,                   \* history: the keys a successful call has stored
  \* ---- calls of the pure functions of the server
  detect,                   \* a detectDominantLanguage call: arguments and result
  llmErr,                   \* a failed LLM provider call: the failure and the error thrown
  parse                     \* a batch reply and what the two reply parsers made of it

storeVars == <<sessions, segments, nextSessionId, faults>>
timerVars == <<polishingTimers, intervals>>
mgrVars == <<activePolishingSessions, att>>
cfgVars == <<polishingBatchSize, sessionMode, enableLivePolishing>>
sessVars == <<sessionCreated, dbSession>>
dgVars == <<dg, dgConnection, dgConnectionReady, pendingAudioChunk,
            isRecreatingConnection, bufferedChunks, dgErrorEmitted>>
chunkVars == <<ch, nextChunk>>
connVars == <<socket, chunkVars, disc, dgVars>>
cacheVars == <<translationCache, tr, stored>>
parseVars == <<parse>>
pureVars == <<detect, llmErr, cacheVars, parseVars>>
cmdVars == <<cmd>>
vars == <<storeVars, timerVars, mgrVars, route, cfgVars, sessVars, th, connVars,
          pureVars, cmdVars>>

\* ------------------------------------------------------------------ store
\* A Session row (the fields the modelled code reads or writes).  Columns that
\* are nullable in the store hold NULL (-1 for a number) until they are written.
NoSession ==
  [exists |-> FALSE, mode |-> "one-way", segmentCount |-> 0, duration |-> NULL,
   isPolishing |-> FALSE, polishingStatus |-> "idle",
   lastPolishedAt |-> NULL, lastPolishedIndex |-> -1]

\* server.ts:456-464  prisma.session.create: the row with the store's defaults.
NewSession(mode) == [NoSession EXCEPT !.exists = TRUE, !.mode = mode]

\* The outcomes a store operation can have: it succeeds, or (within the
\* bound on injected failures) it throws.
StoreOutcomes == IF faults < MaxFaults THEN {TRUE, FALSE} ELSE {TRUE}

Faulted(ok) == IF ok THEN faults ELSE faults + 1

SegIds == 1 .. Len(segments)

\* The live segment rows of session s, ordered by startTime (creation order).
SegmentsOf(s) ==
  SelectSeq([i \in SegIds |-> i],
            LAMBDA i : segments[i].live /\ segments[i].sid = s)

\* polishing-buffer.ts:153-161  include.segments of the lock update:
\* where polishedTranslation null and rawTranslation not null, by startTime.
Backlog(s) ==
  SelectSeq(SegmentsOf(s),
            LAMBDA i : segments[i].pol = NULL /\ segments[i].raw # NULL)

\* ------------------------------------------------ LivePolishingManager
\* An attemptPolishing invocation: where it is suspended (pc), its arguments,
\* its locals (backlog = unpolishedSegments, groups still to polish, positions
\* the parser found, totalPolished, LLM calls made: their number and the group
\* each was made for), and the result it returns
\* (status, polishedCount or -1 when the result has none, and for an error
\* whether its message is the provider's or the store's).
IdleAttempt ==
  [pc |-> "idle", sid |-> 0, manual |-> FALSE, fast |-> FALSE, backlog |-> <<>>,
   groups |-> <<>>, found |-> <<>>, total |-> 0, llmCalls |-> 0, calls |-> <<>>,
   relStatus |-> "idle", status |-> "none", polishedCount |-> -1, message |-> ""]

\* Faulty variant: the in-memory check is skipped.
InMemoryBusyNever(s) == FALSE

\* polishing-buffer.ts:135  activePolishingSessions.has(sessionId)
InMemoryBusy(s) == s \in activePolishingSessions

\* polishing-buffer.ts:145-148  where { id, isPolishing: false }
LockFree(s) == sessions[s].exists /\ ~sessions[s].isPolishing

\* Faulty variant: off by one, <= instead of <.
BelowBatchInclusive(manual, n) == ~manual /\ n <= AutoBatchThreshold

\* polishing-buffer.ts:179  !manual && unpolishedSegments.length < 5
BelowBatch(manual, n) == ~manual /\ n < AutoBatchThreshold

\* A polishSegmentGroup call: the segments and the language pair it is given.
Group(segs, source, target) == [segs |-> segs, source |-> source, target |-> target]

\* Faulty variant: the backlog is polished as one group whatever the mode.
GroupsOfMixed(s, backlog) == <<Group(backlog, "languageA", "languageB")>>

\* polishing-buffer.ts:192-232  the groups handed to polishSegmentGroup, in call
\* order; an empty group makes no call.  (A session is "two-way" when its mode
\* is two-way and both of its languages are set.)
GroupsOf(s, backlog) ==
  IF sessions[s].mode = "two-way"
  THEN LET a == SelectSeq(backlog, LAMBDA i : segments[i].dir = "A_to_B")
           b == SelectSeq(backlog, LAMBDA i : segments[i].dir = "B_to_A")
       IN  (IF a # <<>> THEN <<Group(a, "languageA", "languageB")>> ELSE <<>>)
             \o (IF b # <<>> THEN <<Group(b, "languageB", "languageA")>> ELSE <<>>)
  ELSE <<Group(backlog, "inputLanguage", "outputLanguage")>>

\* Faulty variant: a position the parser did not find is left unpolished.
PolishedValueNoFallback(k, found, seg) ==
  IF k \in DOMAIN found THEN found[k] ELSE NULL

\* polishing-buffer.ts:299  polishedSegmentsMap.get(idx) || segment.rawTranslation
\* (k is the segment's 1-based position in its group, found the parser's map
\* from positions to texts; an empty text is falsy).
PolishedValue(k, found, seg) ==
  IF k \in DOMAIN found /\ found[k] # "" THEN found[k] ELSE seg.raw

\* What the LLM call does: it throws, or it returns a reply in which the parser
\* (polishing-buffer.ts:368-382: /\[(\d+)\]\s*([^\[]+)/g, text trimmed) finds
\* a text for all n positions, for none, for all but the last, or for all with
\* the first one blank (as in "[1]\n[2] text": the match for 1 is the line
\* break, which trim() empties).
Replies == {"throw", "all", "none", "short", "blank"}

Found(reply, n) ==
  IF reply = "all" THEN [k \in 1 .. n |-> "p"]
  ELSE IF reply = "short" THEN [k \in 1 .. (n - 1) |-> "p"]
  ELSE IF reply = "blank" THEN [k \in 1 .. n |-> IF k = 1 THEN "" ELSE "p"]
  ELSE <<>>

\* polishing-buffer.ts:298-309  the segment updates of one group; `done` are the
\* positions whose update was applied.
WriteGroup(group, found, done) ==
  [i \in SegIds |->
     IF \E k \in done : group[k] = i
     THEN LET k == CHOOSE k \in done : group[k] = i
          IN  [segments[i] EXCEPT !.pol = PolishedValue(k, found, segments[i])]
     ELSE segments[i]]

\* Faulty variant: the update writes the status and forgets the flag.
releaseLockStatusOnly(s, status, ok) ==
  IF ok /\ sessions[s].exists
  THEN [sessions EXCEPT ![s].polishingStatus = status]
  ELSE sessions

\* polishing-buffer.ts:387-399  releaseLock: the update, its failure swallowed.
releaseLock(s, status, ok) ==
  IF ok /\ sessions[s].exists
  THEN [sessions EXCEPT ![s].isPolishing = FALSE, ![s].polishingStatus = status]
  ELSE sessions

\* Faulty variant: the busy return releases the lock it does not hold.
BusyExitReleases(s) ==
  IF sessions[s].exists
  THEN [sessions EXCEPT ![s].isPolishing = FALSE, ![s].polishingStatus = "idle"]
  ELSE sessions

\* polishing-buffer.ts:164-167  the busy return after a lock update that matched
\* no row: the store is left as it is.
BusyExit(s) == sessions

\* Faulty variant: the finally block leaves the session id in the set.
FinallySkipped(s) == activePolishingSessions

\* polishing-buffer.ts:258-261  finally: activePolishingSessions.delete
Finally(s) == activePolishingSessions \ {s}

\* Faulty variant: the catch block releases the lock and rethrows, so the
\* promise attemptPolishing returned is rejected.
CatchRethrows(rec, message) ==
  [rec EXCEPT !.pc = "release", !.groups = <<>>, !.found = <<>>,
              !.relStatus = "error", !.status = "rejected", !.message = message]

\* polishing-buffer.ts:251-257  the catch block: the failure is logged,
\* releaseLock(sessionId, 'error') is issued, and status error is what the
\* invocation will return.
Catch(rec, message) ==
  [rec EXCEPT !.pc = "release", !.groups = <<>>, !.found = <<>>,
              !.relStatus = "error", !.status = "error", !.message = message]

\* Faulty variant: the lock update sets the flag and leaves the status.
AcquireLockFlagOnly(s) == [sessions EXCEPT ![s].isPolishing = TRUE]

\* polishing-buffer.ts:149-152  data of the lock update.
AcquireLock(s) ==
  [sessions EXCEPT ![s].isPolishing = TRUE, ![s].polishingStatus = "processing"]

\* polishing-buffer.ts:134-141 (called from server.ts:506 with manual = true for
\* dbSession, and from the interval callback of polishing-buffer.ts:332-336 with
\* manual = false): the in-memory check, and the lock update being issued.
attemptPolishing(a, s, manual) ==
  /\ att[a].pc = "idle"
  /\ IF InMemoryBusy(s)
     THEN /\ att' = [att EXCEPT ![a] = [IdleAttempt EXCEPT
                       !.pc = "done", !.sid = s, !.manual = manual,
                       !.fast = TRUE, !.status = "busy"]]
          /\ UNCHANGED activePolishingSessions
     ELSE /\ activePolishingSessions' = activePolishingSessions \cup {s}
          /\ att' = [att EXCEPT ![a] = [IdleAttempt EXCEPT
                       !.pc = "acquire", !.sid = s, !.manual = manual]]

\* An invocation starts: a manual one for the session held (server.ts:506), a
\* background one from the interval callback of the session's timer
\* (polishing-buffer.ts:332-336).
AttemptCall(a, s, manual) ==
  /\ IF manual THEN socket = "connected" /\ sessionCreated /\ dbSession = s
               ELSE \E i \in intervals : i.sid = s
  /\ attemptPolishing(a, s, manual)
  /\ UNCHANGED <<storeVars, timerVars, route, cfgVars, pureVars, cmdVars, sessVars, th, connVars>>

\* polishing-buffer.ts:143-232  the conditional lock update completes; then the
\* busy return, the two no-op returns' releaseLock call, or the first LLM call.
AttemptAcquire(a, ok) ==
  /\ att[a].pc = "acquire"
  /\ ok \in StoreOutcomes
  /\   LET s == att[a].sid
           backlog == Backlog(s)
           n == Len(backlog)
           groups == GroupsOf(s, backlog)
       IN
       /\ faults' = Faulted(ok)
       /\ IF ok /\ LockFree(s)
          THEN /\ sessions' = AcquireLock(s)
               /\ UNCHANGED activePolishingSessions
               /\ att' = [att EXCEPT ![a] =
                    IF n = 0 \/ BelowBatch(att[a].manual, n)
                    THEN [@ EXCEPT !.pc = "release", !.backlog = backlog,
                                   !.relStatus = "idle",
                                   !.status = "success", !.polishedCount = 0]
                    ELSE IF groups = <<>>
                    THEN [@ EXCEPT !.pc = "finalize", !.backlog = backlog]
                    ELSE [@ EXCEPT !.pc = "llm", !.backlog = backlog,
                                   !.groups = groups, !.llmCalls = 1,
                                   !.calls = <<Head(groups)>>]]
          ELSE /\ sessions' = BusyExit(s)
               /\ activePolishingSessions' = Finally(s)
               /\ att' = [att EXCEPT ![a] = [@ EXCEPT !.pc = "done", !.status = "busy"]]
  /\ UNCHANGED <<segments, nextSessionId, timerVars, route, cfgVars, pureVars, cmdVars, sessVars, th, connVars>>

\* polishing-buffer.ts:285-309  translateTextWithLLM returns (or throws); the
\* reply is parsed and the segment updates of the group are issued.
AttemptLLM(a, reply) ==
  /\ att[a].pc = "llm"
  /\ att' = [att EXCEPT ![a] =
       IF reply = "throw"
       THEN Catch(@, "llm")
       ELSE [@ EXCEPT !.pc = "write", !.found = Found(reply, Len(Head(att[a].groups).segs))]]
  /\ UNCHANGED <<storeVars, activePolishingSessions, timerVars, route,
                 cfgVars, pureVars, cmdVars, sessVars, th, connVars>>

\* polishing-buffer.ts:311-312, 208-243  Promise.all of the group's updates
\* settles; then the next group's LLM call, or the completion update is issued.
\* A rejected update (store failure, or a row that is gone) leaves any subset of
\* the other updates applied and is caught at line 251.
AttemptWrite(a, ok) ==
  /\ att[a].pc = "write"
  /\ ok \in StoreOutcomes
  /\ LET group == Head(att[a].groups).segs
         rest == Tail(att[a].groups)
         allLive == \A k \in DOMAIN group : segments[group[k]].live
     IN
       /\ faults' = Faulted(ok)
       /\ IF ok /\ allLive
          THEN /\ segments' = WriteGroup(group, att[a].found, DOMAIN group)
               /\ att' = [att EXCEPT ![a] =
                    IF rest = <<>>
                    THEN [@ EXCEPT !.pc = "finalize", !.groups = rest, !.found = <<>>,
                                   !.total = @ + Len(group)]
                    ELSE [@ EXCEPT !.pc = "llm", !.groups = rest, !.found = <<>>,
                                   !.total = @ + Len(group), !.llmCalls = @ + 1,
                                   !.calls = Append(@, Head(rest))]]
          ELSE /\ \E done \in SUBSET {k \in DOMAIN group : segments[group[k]].live} :
                    /\ done # DOMAIN group
                    /\ segments' = WriteGroup(group, att[a].found, done)
               /\ att' = [att EXCEPT ![a] = Catch(@, "store")]
  /\ UNCHANGED <<sessions, nextSessionId, activePolishingSessions, timerVars,
                 route, cfgVars, pureVars, cmdVars, sessVars, th, connVars>>

\* Faulty variant: the completion update records the time and clears the lock
\* but not the count.
CompletionUpdateNoIndex(s, totalPolished) ==
  [sessions EXCEPT ![s].lastPolishedAt = "set",
                   ![s].polishingStatus = "idle",
                   ![s].isPolishing = FALSE]

\* polishing-buffer.ts:235-243  the completion update
CompletionUpdate(s, totalPolished) ==
  [sessions EXCEPT ![s].lastPolishedAt = "set",
                   ![s].lastPolishedIndex = totalPolished,
                   ![s].polishingStatus = "idle",
                   ![s].isPolishing = FALSE]

\* polishing-buffer.ts:234-261  the completion update settles: success, or the
\* catch block's releaseLock call.
AttemptFinalize(a, ok) ==
  /\ att[a].pc = "finalize"
  /\ ok \in StoreOutcomes
  /\   LET s == att[a].sid IN
       /\ faults' = Faulted(ok)
       /\ IF ok /\ sessions[s].exists
          THEN /\ sessions' = CompletionUpdate(s, att[a].total)
               /\ activePolishingSessions' = Finally(s)
               /\ att' = [att EXCEPT ![a] = [@ EXCEPT !.pc = "done", !.status = "success",
                                              !.polishedCount = att[a].total]]
          ELSE /\ UNCHANGED <<sessions, activePolishingSessions>>
               /\ att' = [att EXCEPT ![a] = Catch(@, "store")]
  /\ UNCHANGED <<segments, nextSessionId, timerVars, route, cfgVars, pureVars, cmdVars, sessVars, th, connVars>>

\* polishing-buffer.ts:174-175, 181-186, 253-261  releaseLock settles; the
\* invocation returns the result it was about to return.
AttemptRelease(a, ok) ==
  /\ att[a].pc = "release"
  /\ ok \in StoreOutcomes
  /\ faults' = Faulted(ok)
  /\ sessions' = releaseLock(att[a].sid, att[a].relStatus, ok)
  /\ activePolishingSessions' = Finally(att[a].sid)
  /\ att' = [att EXCEPT ![a] = [@ EXCEPT !.pc = "done"]]
  /\ UNCHANGED <<segments, nextSessionId, timerVars, route, cfgVars, pureVars, cmdVars, sessVars, th, connVars>>

\* The caller has consumed the result (server.ts:508-527, polishing-buffer.ts:335).
AttemptReturn(a) ==
  /\ att[a].pc = "done"
  /\ att' = [att EXCEPT ![a] = IdleAttempt]
  /\ UNCHANGED <<storeVars, activePolishingSessions, timerVars, route,
                 cfgVars, pureVars, cmdVars, sessVars, th, connVars>>

\* ------------------------------------------ POST /api/sessions/:id/polish
IdleRoute == [pc |-> "idle", sid |-> 0, segs |-> <<>>, found |-> <<>>, code |-> 0]

\* server.ts:33-51  the request arrives with key and model; findUnique is issued.
RouteCall(s) ==
  /\ route.pc = "idle"
  /\ route' = [IdleRoute EXCEPT !.pc = "read", !.sid = s]
  /\ UNCHANGED <<storeVars, timerVars, mgrVars, cfgVars, pureVars, cmdVars, sessVars, th, connVars>>

\* server.ts:44-75  findUnique settles: 404, 400, or the batch LLM call with
\* every segment of the session.  No lock is read or taken.
RouteRead(ok) ==
  /\ route.pc = "read"
  /\ ok \in StoreOutcomes
  /\   /\ faults' = Faulted(ok)
       /\ route' =
            IF ~ok THEN [route EXCEPT !.pc = "done", !.code = 500]
            ELSE IF ~sessions[route.sid].exists
            THEN [route EXCEPT !.pc = "done", !.code = 404]
            ELSE IF SegmentsOf(route.sid) = <<>>
            THEN [route EXCEPT !.pc = "done", !.code = 400]
            ELSE [route EXCEPT !.pc = "llm", !.segs = SegmentsOf(route.sid)]
  /\ UNCHANGED <<sessions, segments, nextSessionId, timerVars, mgrVars, cfgVars, pureVars, cmdVars, sessVars, th, connVars>>

\* server.ts:67-100, 109-116  translateText returns (or throws: 500); the reply
\* is parsed and the updates of all segments are issued.
RouteLLM(reply) ==
  /\ route.pc = "llm"
  /\ route' = IF reply = "throw"
              THEN [route EXCEPT !.pc = "done", !.segs = <<>>, !.code = 500]
              ELSE [route EXCEPT !.pc = "write", !.found = Found(reply, Len(route.segs))]
  /\ UNCHANGED <<storeVars, timerVars, mgrVars, cfgVars, pureVars, cmdVars, sessVars, th, connVars>>

\* server.ts:89-116  Promise.all of the updates settles: 200, or 500.
RouteWrite(ok) ==
  /\ route.pc = "write"
  /\ ok \in StoreOutcomes
  /\ LET allLive == \A k \in DOMAIN route.segs : segments[route.segs[k]].live IN
       /\ faults' = Faulted(ok)
       /\ IF ok /\ allLive
          THEN /\ segments' = WriteGroup(route.segs, route.found, DOMAIN route.segs)
               /\ route' = [route EXCEPT !.pc = "done", !.segs = <<>>, !.found = <<>>,
                                         !.code = 200]
          ELSE /\ \E done \in SUBSET {k \in DOMAIN route.segs :
                                        segments[route.segs[k]].live} :
                    /\ done # DOMAIN route.segs
                    /\ segments' = WriteGroup(route.segs, route.found, done)
               /\ route' = [route EXCEPT !.pc = "done", !.segs = <<>>, !.found = <<>>,
                                         !.code = 500]
  /\ UNCHANGED <<sessions, nextSessionId, timerVars, mgrVars, cfgVars, pureVars, cmdVars, sessVars, th, connVars>>

\* The reply has been sent.
RouteReturn ==
  /\ route.pc = "done"
  /\ route' = IdleRoute
  /\ UNCHANGED <<storeVars, timerVars, mgrVars, cfgVars, pureVars, cmdVars, sessVars, th, connVars>>

\* ----------------------------------------- Transcript handler (server.ts)
Handlers == {1, 2}
\* An invocation of the handler: where it is suspended, the session it writes
\* to, the transcript's direction, the transcript's place in the order of
\* arrival (seq) and the time `now` it read after the translation (startTime).
IdleHandler ==
  [pc |-> "idle", sid |-> 0, dir |-> NULL, raw |-> NULL, seq |-> 0, startTime |-> 0,
   emitted |-> NULL]

\* The handler has returned after emitting the event: the translation event
\* (instant-translation or two-way-translation, server.ts:437) or 'error' (440).
Returned(event) == [IdleHandler EXCEPT !.emitted = event]

\* Faulty variant: the failure is swallowed and nothing is emitted.
TranslationFailedSilently == Returned(NULL)

\* server.ts:438-441  the outer catch: the failure is logged and 'error' emitted.
TranslationFailed == Returned("error")

\* Faulty variant: a failed save reaches the handler's outer catch.
SaveFailedAborts == Returned("error")

\* server.ts:431-437  a failed save is logged by the inner catch and the
\* segment emitted all the same.
SaveFailed == Returned("translation")

\* What translateWithLibreTranslate does (libretranslate-client): it throws,
\* or it returns data.translatedText of the provider's reply: a text, or
\* nothing when the reply carries no such field.
Translations == {"throw", "text", "none"}

\* The replies of a provider that keeps to its format, or fails.
PlainTranslations == {"throw", "text"}

\* server.ts:412  rawTranslation: instantTranslation (an undefined value is
\* stored as null).
RawOf(translation) == IF translation = "text" THEN "r" ELSE NULL

\* The largest value of a field among the segment rows and the invocations.
Latest(field) ==
  LET used == {segments[i][field] : i \in SegIds}
                \cup {th[t][field] : t \in DOMAIN th}
  IN  CHOOSE m \in used \cup {0} : \A n \in used : n <= m

InFlight == {t \in Handlers : th[t].pc # "idle"}

\* server.ts:352-366  translationDirection of a final transcript: undefined in
\* one-way mode and for a transcript without words, else the detected direction.
Directions(mode) ==
  IF mode = "two-way" THEN {NULL, "A_to_B", "B_to_A"} ELSE {NULL}

\* server.ts:343-387  a final, non-blank transcript arrives from an upstream
\* connection that is open and was sent audio; the instant translation is
\* requested.
TranscriptFinal(t, dir) ==
  /\ th[t].pc = "idle"
  /\ \E c \in DOMAIN dg : dg[c].state = "open" /\ dg[c].sends # <<>>
  /\ th' = [th EXCEPT ![t] = [IdleHandler EXCEPT !.pc = "translating", !.dir = dir,
                                                  !.seq = Latest("seq") + 1]]
  /\ UNCHANGED <<storeVars, timerVars, mgrVars, route, cfgVars, pureVars, cmdVars, sessVars, connVars>>

\* server.ts:383-417, 434-438  the translation settles: on failure the error is
\* emitted; on success the segment create is issued when a session is held,
\* else the segment is only emitted.
TranslationDone(t, translation) ==
  /\ th[t].pc = "translating"
  /\ th' = [th EXCEPT ![t] =
             IF translation # "throw" /\ sessionCreated /\ dbSession # 0
             THEN [@ EXCEPT !.pc = "creating", !.sid = dbSession,
                            !.raw = RawOf(translation),
                            !.startTime = Latest("startTime") + 1]
             ELSE IF translation # "throw" THEN Returned("translation")
             ELSE TranslationFailed]
  /\ UNCHANGED <<storeVars, timerVars, mgrVars, route, cfgVars, pureVars, cmdVars, sessVars, connVars>>

\* server.ts:406-425, 428-434  the segment create settles: the counter update is
\* issued for dbSession.id as read now; a failure is logged and the segment emitted.
SegmentCreated(t, ok) ==
  /\ th[t].pc = "creating"
  /\ ok \in StoreOutcomes
  /\   /\ faults' = Faulted(ok)
       /\ IF ok /\ sessions[th[t].sid].exists
          THEN /\ segments' = Append(segments,
                    [sid |-> th[t].sid, raw |-> th[t].raw, pol |-> NULL,
                     dir |-> th[t].dir, live |-> TRUE,
                     seq |-> th[t].seq, startTime |-> th[t].startTime])
               /\ th' = [th EXCEPT ![t] = [@ EXCEPT !.pc = "counting", !.sid = dbSession]]
          ELSE /\ UNCHANGED segments
               /\ th' = [th EXCEPT ![t] = SaveFailed]
  /\ UNCHANGED <<sessions, nextSessionId, timerVars, mgrVars, route, cfgVars, pureVars, cmdVars, sessVars, connVars>>

\* server.ts:420-434  the segmentCount increment settles; the segment is emitted.
SegmentCounted(t, ok) ==
  /\ th[t].pc = "counting"
  /\ ok \in StoreOutcomes
  /\   /\ faults' = Faulted(ok)
       /\ sessions' = IF ok /\ sessions[th[t].sid].exists
                      THEN [sessions EXCEPT ![th[t].sid].segmentCount = @ + 1]
                      ELSE sessions
  /\ th' = [th EXCEPT ![t] = IF ok /\ sessions[th[t].sid].exists
                             THEN Returned("translation") ELSE SaveFailed]
  /\ UNCHANGED <<segments, nextSessionId, timerVars, mgrVars, route, cfgVars, pureVars, cmdVars, sessVars, connVars>>


\* ------------------------------------- upstream connection (server.ts)
\* A connection made by deepgram.listen.live: the provider's side of it
\* (connecting, open, closed), whether finish() was called on it, the payloads
\* of the send() calls made on it, and whether its Close handler emitted
\* deepgram-closed to the client.
NewConn ==
  [state |-> "connecting", finished |-> FALSE, sends |-> <<>>,
   closedEmitted |-> FALSE]

\* Faulty variant: the connection held is dropped without finish().
FinishSkipped(conns, c) == conns

\* server.ts:302-304, 538-540  dgConnection.finish() on the connection held.
Finish(conns, c) == IF c = 0 THEN conns ELSE [conns EXCEPT ![c].finished = TRUE]

\* server.ts:329, 491  dgConnection.send(data) on the connection held.
Send(conns, c, data) == [conns EXCEPT ![c].sends = Append(@, data)]

\* Faulty variant: the pending chunk is not sent when the connection opens.
FlushPendingDrops(conns, c, pending) == conns

\* server.ts:327-331  on Open: the pending chunk, if any, is sent on dgConnection.
FlushPending(conns, c, pending) ==
  IF pending # 0 THEN Send(conns, c, pending) ELSE conns

\* server.ts:297-318  createDeepgramConnection: the connection held is finished
\* and dropped, and a new one is created and held.
createDeepgramConnection ==
  /\ Len(dg) < MaxConns
  /\ isRecreatingConnection' = TRUE
  /\ dg' = Append(Finish(dg, dgConnection), NewConn)
  /\ dgConnection' = Len(dg) + 1
  /\ dgConnectionReady' = IF dgConnection # 0 THEN FALSE ELSE dgConnectionReady

\* Faulty variant: a chunk that arrives while another is pending is discarded.
ForwardKeepsFirst(data) ==
  IF ~dgConnectionReady
  THEN /\ pendingAudioChunk' = IF pendingAudioChunk # 0 THEN pendingAudioChunk ELSE data
       /\ bufferedChunks' = bufferedChunks \cup {data}
       /\ createDeepgramConnection
       /\ dgErrorEmitted' = FALSE
  ELSE /\ dg' = Send(dg, dgConnection, data)
       /\ dgErrorEmitted' = FALSE
       /\ UNCHANGED <<dgConnection, dgConnectionReady, pendingAudioChunk,
                      isRecreatingConnection, bufferedChunks>>

\* server.ts:485-492  the end of the audio-chunk handler: buffer and recreate,
\* or send.
Forward(data) ==
  IF ~dgConnectionReady
  THEN /\ pendingAudioChunk' = data
       /\ bufferedChunks' = bufferedChunks \cup {data}
       /\ createDeepgramConnection
       /\ dgErrorEmitted' = FALSE
  ELSE /\ dg' = Send(dg, dgConnection, data)
       /\ dgErrorEmitted' = FALSE
       /\ UNCHANGED <<dgConnection, dgConnectionReady, pendingAudioChunk,
                      isRecreatingConnection, bufferedChunks>>

\* server.ts:320-332  LiveTranscriptionEvents.Open of connection c.
DgOpen(c) ==
  /\ c \in DOMAIN dg /\ dg[c].state = "connecting"
  /\ dgConnectionReady' = TRUE
  /\ isRecreatingConnection' = FALSE
  /\ dg' = FlushPending([dg EXCEPT ![c].state = "open"], dgConnection,
                        pendingAudioChunk)
  /\ pendingAudioChunk' = 0
  /\ UNCHANGED <<dgConnection, bufferedChunks, dgErrorEmitted>>
  /\ UNCHANGED <<storeVars, timerVars, mgrVars, route, cfgVars, pureVars, cmdVars, sessVars, th,
                 socket, chunkVars, disc>>

\* server.ts:334-341  LiveTranscriptionEvents.Close of connection c (closed by
\* the provider, or after finish()).
DgClose(c) ==
  /\ c \in DOMAIN dg /\ dg[c].state # "closed"
  /\ dg' = [dg EXCEPT ![c].state = "closed",
                      ![c].closedEmitted = ~isRecreatingConnection]
  /\ dgConnectionReady' = FALSE
  /\ UNCHANGED <<dgConnection, pendingAudioChunk, isRecreatingConnection,
                 bufferedChunks, dgErrorEmitted>>
  /\ UNCHANGED <<storeVars, timerVars, mgrVars, route, cfgVars, pureVars, cmdVars, sessVars, th,
                 socket, chunkVars, disc>>

\* server.ts:442-446  LiveTranscriptionEvents.Error of connection c: the
\* connection is marked not ready and 'error' is emitted to the client.
DgError(c) ==
  /\ c \in DOMAIN dg /\ dg[c].state # "closed"
  /\ dgConnectionReady' = FALSE
  /\ dgErrorEmitted' = TRUE
  /\ UNCHANGED <<dg, dgConnection, pendingAudioChunk, isRecreatingConnection,
                 bufferedChunks>>
  /\ UNCHANGED <<storeVars, timerVars, mgrVars, route, cfgVars, pureVars, cmdVars, sessVars, th,
                 socket, chunkVars, disc>>

\* ------------------------------------------ audio-chunk handler (server.ts)
ChunkSlots == {1, 2}
\* An audio-chunk handler invocation: where it is, its payload, and whether it
\* has emitted the 'error' event of server.ts:480.
IdleChunk == [pc |-> "idle", data |-> 0, errorEmitted |-> FALSE]

Creating == {h \in ChunkSlots : ch[h].pc = "creating"}

\* new Map()
EmptyMap == [k \in {} |-> 0]

\* The manager's timers: the map and the live intervals.  A handle is the
\* number of its Timeout object.
Timers == [map |-> polishingTimers, live |-> intervals]

\* Map.delete
MapDelete(map, s) == [k \in DOMAIN map \ {s} |-> map[k]]

\* Map.set
MapSet(map, s, v) == [k \in DOMAIN map \cup {s} |-> IF k = s THEN v ELSE map[k]]

\* clearInterval
clearInterval(live, handle) == {i \in live : i.id # handle}

\* setInterval returns a handle that no live timer and no map entry has.
NewHandle(T) ==
  LET used == {i.id : i \in T.live} \cup {T.map[k] : k \in DOMAIN T.map}
  IN  CHOOSE n \in 1 .. (Cardinality(used) + 1) :
        n \notin used /\ \A k \in 1 .. (n - 1) : k \in used

\* polishing-buffer.ts:345-352  stopBackgroundPolishing
stopBackgroundPolishing(T, s) ==
  IF s \in DOMAIN T.map
  THEN [map |-> MapDelete(T.map, s), live |-> clearInterval(T.live, T.map[s])]
  ELSE T

\* Faulty variant: the existing timer of the session is not cleared.
startBackgroundPolishingNoClear(T, s, enable) ==
  IF ~enable THEN T
  ELSE [map |-> MapSet(T.map, s, NewHandle(T)),
        live |-> T.live \cup {[id |-> NewHandle(T), sid |-> s]}]

\* polishing-buffer.ts:318-340  startBackgroundPolishing: nothing without
\* enableLivePolishing; else the session's timer is stopped and a new one is
\* set and recorded.
startBackgroundPolishing(T, s, enable) ==
  IF ~enable THEN T
  ELSE LET U == stopBackgroundPolishing(T, s)
           handle == NewHandle(U)
       IN  [map |-> MapSet(U.map, s, handle),
            live |-> U.live \cup {[id |-> handle, sid |-> s]}]

\* polishing-buffer.ts:357-363  stopAllBackgroundPolishing
stopAllBackgroundPolishing(T) ==
  [map |-> EmptyMap,
   live |-> {i \in T.live : \A k \in DOMAIN T.map : T.map[k] # i.id}]

\* The map and the live timers become those of T.
SetTimers(T) == polishingTimers' = T.map /\ intervals' = T.live

\* A call of startBackgroundPolishing for session id s with the connection's
\* configuration.
StartCall(s) ==
  /\ SetTimers(startBackgroundPolishing(Timers, s, enableLivePolishing))
  /\ UNCHANGED <<storeVars, mgrVars, route, cfgVars, pureVars, cmdVars, sessVars, th,
                 connVars>>

\* A call of stopBackgroundPolishing for session id s.
StopCall(s) ==
  /\ SetTimers(stopBackgroundPolishing(Timers, s))
  /\ UNCHANGED <<storeVars, mgrVars, route, cfgVars, pureVars, cmdVars, sessVars, th,
                 connVars>>

\* A call of stopAllBackgroundPolishing.
StopAllCall ==
  /\ SetTimers(stopAllBackgroundPolishing(Timers))
  /\ UNCHANGED <<storeVars, mgrVars, route, cfgVars, pureVars, cmdVars, sessVars, th,
                 connVars>>

\* server.ts:452-464, 485-492  an audio chunk with payload data arrives:
\* without a session the session create is issued, else the chunk is buffered
\* or sent.
ChunkArrives(h, data) ==
  /\ socket = "connected"
  /\ ch[h].pc = "idle"
  /\ IF ~sessionCreated
     THEN /\ nextSessionId + Cardinality(Creating) <= MaxSessions
          /\ ch' = [ch EXCEPT ![h] = [IdleChunk EXCEPT !.pc = "creating", !.data = data]]
          /\ UNCHANGED dgVars
     ELSE /\ Forward(data)
          /\ UNCHANGED ch
  /\ UNCHANGED <<storeVars, timerVars, mgrVars, route, cfgVars, pureVars, cmdVars, sessVars, th,
                 socket, disc>>

\* The client's next audio-chunk event: chunks carry distinct payloads, numbered
\* in the order they are received.
AudioChunk(h) ==
  /\ nextChunk <= MaxChunks
  /\ nextChunk' = nextChunk + 1
  /\ ChunkArrives(h, nextChunk)

\* A client that goes on sending audio for as long as the upstream connection
\* is not ready (payloads are reused: the stream has no end).
AudioStream(h) ==
  /\ ~dgConnectionReady
  /\ \E x \in 1 .. MaxChunks : ChunkArrives(h, x)
  /\ UNCHANGED nextChunk

\* server.ts:307, 312  a replaced connection that has closed can raise no
\* further event: nothing refers to it any more and its record is discarded.
Forget ==
  /\ dgConnection > 1
  /\ dg[1].finished /\ dg[1].state = "closed"
  /\ dg' = Tail(dg)
  /\ dgConnection' = dgConnection - 1
  /\ UNCHANGED <<dgConnectionReady, pendingAudioChunk, isRecreatingConnection,
                 bufferedChunks, dgErrorEmitted>>
  /\ UNCHANGED <<storeVars, timerVars, mgrVars, route, cfgVars, pureVars, cmdVars, sessVars, th,
                 socket, chunkVars, disc>>

\* Faulty variant: the chunk is forwarded although its session create failed.
CreateFailedForwards(h) ==
  /\ ch' = [ch EXCEPT ![h] = [IdleChunk EXCEPT !.errorEmitted = TRUE]]
  /\ Forward(ch[h].data)

\* server.ts:478-482  the session create threw: the error event is emitted and
\* the handler returns without touching the upstream connection.
CreateFailed(h) ==
  /\ ch' = [ch EXCEPT ![h] = [IdleChunk EXCEPT !.errorEmitted = TRUE]]
  /\ dgErrorEmitted' = FALSE
  /\ UNCHANGED <<dg, dgConnection, dgConnectionReady, pendingAudioChunk,
                 isRecreatingConnection, bufferedChunks>>

\* server.ts:456-492  the session create settles: the session is held, its timer
\* started and the chunk buffered or sent; on failure the chunk is dropped.
SessionCreated(h, ok) ==
  /\ ch[h].pc = "creating"
  /\ ok \in StoreOutcomes
  /\ faults' = Faulted(ok)
  /\ IF ok
     THEN /\ sessions' = [sessions EXCEPT ![nextSessionId] = NewSession(sessionMode)]
          /\ nextSessionId' = nextSessionId + 1
          /\ dbSession' = nextSessionId
          /\ sessionCreated' = TRUE
          /\ SetTimers(startBackgroundPolishing(Timers, nextSessionId,
                                                enableLivePolishing))
          /\ ch' = [ch EXCEPT ![h] = IdleChunk]
          /\ Forward(ch[h].data)
     ELSE /\ CreateFailed(h)
          /\ UNCHANGED <<sessions, nextSessionId, sessVars, timerVars>>
  /\ UNCHANGED <<segments, mgrVars, route, cfgVars, pureVars, cmdVars, th, socket, nextChunk, disc>>

\* -------------------------------------------- disconnect handler (server.ts)
IdleDisc == [pc |-> "idle", sid |-> 0, count |-> -1, error |-> FALSE]

\* Faulty variant: a session with one segment is treated as empty.
IsEmptySessionOffByOne(count) == count <= 1

\* server.ts:560  session.segmentCount === 0
IsEmptySession(count) == count = 0

\* server.ts:536-558  the socket disconnects: the upstream connection is
\* finished, the session's timer stopped and the session read.
Disconnect ==
  /\ socket = "connected"
  /\ socket' = "disconnected"
  /\ dg' = Finish(dg, dgConnection)
  /\ IF sessionCreated /\ dbSession # 0
     THEN /\ SetTimers(stopBackgroundPolishing(Timers, dbSession))
          /\ disc' = [IdleDisc EXCEPT !.pc = "reading", !.sid = dbSession]
     ELSE /\ UNCHANGED timerVars
          /\ disc' = [IdleDisc EXCEPT !.pc = "done"]
  /\ UNCHANGED <<dgConnection, dgConnectionReady, pendingAudioChunk,
                 isRecreatingConnection, bufferedChunks, dgErrorEmitted>>
  /\ UNCHANGED <<storeVars, mgrVars, route, cfgVars, pureVars, cmdVars, sessVars, th, chunkVars>>

\* server.ts:555-572, 575-577  findUnique settles: the delete of an empty
\* session, or the duration update, is issued.
DiscRead(ok) ==
  /\ disc.pc = "reading"
  /\ ok \in StoreOutcomes
  /\ faults' = Faulted(ok)
  /\ disc' =
       IF ~ok THEN [disc EXCEPT !.pc = "done", !.error = TRUE]
       ELSE IF sessions[disc.sid].exists
               /\ IsEmptySession(sessions[disc.sid].segmentCount)
       THEN [disc EXCEPT !.pc = "deleting", !.count = sessions[disc.sid].segmentCount]
       ELSE [disc EXCEPT !.pc = "updating",
                         !.count = IF sessions[disc.sid].exists
                                   THEN sessions[disc.sid].segmentCount ELSE -1]
  /\ UNCHANGED <<sessions, segments, nextSessionId, timerVars, mgrVars, route,
                 cfgVars, pureVars, cmdVars, sessVars, th, socket, chunkVars, dgVars>>

\* server.ts:562-565  the delete settles.  The schema is not part of the
\* sources: a session that has segment rows is deleted with them (cascade) or
\* the delete is refused.
DiscDelete(ok, cascade) ==
  /\ disc.pc = "deleting"
  /\ ok \in StoreOutcomes
  /\ faults' = Faulted(ok)
  /\ LET s == disc.sid
         deletes == ok /\ sessions[s].exists /\ (cascade \/ SegmentsOf(s) = <<>>)
     IN
     /\ sessions' = IF deletes THEN [sessions EXCEPT ![s] = NoSession] ELSE sessions
     /\ segments' = IF deletes
                    THEN [i \in SegIds |->
                            IF segments[i].sid = s
                            THEN [segments[i] EXCEPT !.live = FALSE]
                            ELSE segments[i]]
                    ELSE segments
     /\ disc' = [disc EXCEPT !.pc = "done", !.error = ~deletes]
  /\ UNCHANGED <<nextSessionId, timerVars, mgrVars, route, cfgVars, pureVars, cmdVars, sessVars, th,
                 socket, chunkVars, dgVars>>

\* server.ts:568-577  the duration update settles.
DiscUpdate(ok) ==
  /\ disc.pc = "updating"
  /\ ok \in StoreOutcomes
  /\ faults' = Faulted(ok)
  /\ LET s == disc.sid
         updates == ok /\ sessions[s].exists
     IN
     /\ sessions' = IF updates THEN [sessions EXCEPT ![s].duration = "set"]
                    ELSE sessions
     /\ disc' = [disc EXCEPT !.pc = "done", !.error = ~updates]
  /\ UNCHANGED <<segments, nextSessionId, timerVars, mgrVars, route, cfgVars, pureVars, cmdVars,
                 sessVars, th, socket, chunkVars, dgVars>>

\* ---------------------------------- polish-current-session handler (server.ts)
\* The handler of the client's polish-current-session command: where it is
\* suspended, and the events it has emitted to the client, in order.
IdleCommand == [pc |-> "idle", events |-> <<>>]

\* Faulty variant: polish-started is not emitted.
StartedSkipped(events) == events

\* server.ts:503  socket.emit('polish-started')
Started(events) == Append(events, "polish-started")

\* server.ts:521-525  the event for a result other than success.
ResultEvent(status) == IF status = "busy" THEN "polish-busy" ELSE "polish-error"

\* server.ts:496-506  the command arrives: without a session polish-error is
\* emitted and the handler returns; else polish-started is emitted and
\* attemptPolishing is called for the session held, with manual = true.
PolishCommand ==
  /\ socket = "connected"
  /\ cmd.pc = "idle"
  /\ IF ~sessionCreated \/ dbSession = 0
     THEN /\ cmd' = [pc |-> "done", events |-> <<"polish-error">>]
          /\ UNCHANGED mgrVars
     ELSE /\ cmd' = [pc |-> "awaiting", events |-> Started(<<>>)]
          /\ attemptPolishing("manual", dbSession, TRUE)
  /\ UNCHANGED <<storeVars, timerVars, route, cfgVars, pureVars, sessVars, th, connVars>>

\* server.ts:506-527  attemptPolishing has returned: on success the session is
\* read, else polish-busy or polish-error is emitted.
PolishResult ==
  /\ cmd.pc = "awaiting"
  /\ att["manual"].pc = "done"
  /\ att' = [att EXCEPT !["manual"] = IdleAttempt]
  /\ cmd' = IF att["manual"].status = "success"
            THEN [cmd EXCEPT !.pc = "reading"]
            ELSE [pc |-> "done",
                  events |-> Append(cmd.events, ResultEvent(att["manual"].status))]
  /\ UNCHANGED <<storeVars, activePolishingSessions, timerVars, route, cfgVars,
                 pureVars, sessVars, th, connVars>>

\* server.ts:510-520, 528-533  findUnique settles: polish-completed is emitted,
\* or the catch block emits polish-error.
PolishRead(ok) ==
  /\ cmd.pc = "reading"
  /\ ok \in StoreOutcomes
  /\ faults' = Faulted(ok)
  /\ cmd' = [pc |-> "done",
             events |-> Append(cmd.events,
                               IF ok THEN "polish-completed" ELSE "polish-error")]
  /\ UNCHANGED <<sessions, segments, nextSessionId, timerVars, mgrVars, route,
                 cfgVars, pureVars, sessVars, th, connVars>>

\* The handler has returned; the client may send the next command.
PolishReturn ==
  /\ cmd.pc = "done"
  /\ cmd' = IdleCommand
  /\ UNCHANGED <<storeVars, timerVars, mgrVars, route, cfgVars, pureVars, sessVars,
                 th, connVars>>

\* ------------------------------------------- language detection (settings.ts)
\* A language code is the sequence of its '-' separated subtags ("nl-BE" is
\* <<"nl", "BE">>, the empty string is <<>>); a word without a language tag
\* has <<>>, which the code treats like the empty string.
ToLowerCase(subtag) ==
  IF subtag = "NL" THEN "nl" ELSE IF subtag = "FR" THEN "fr"
  ELSE IF subtag = "BE" THEN "be" ELSE subtag

\* settings.ts:76-79  normalizeLanguageCode
normalizeLanguageCode(bcp47Code) ==
  IF bcp47Code = <<>> THEN <<>>
  ELSE <<ToLowerCase(Head(bcp47Code))>>

\* settings.ts:95-107  the counting loop over the words; counts is the record
\* keyed by languageA and languageB.
RECURSIVE CountWords(_, _, _, _)
CountWords(words, languageA, languageB, counts) ==
  IF words = <<>> THEN counts
  ELSE LET word == Head(words)
           normalized == normalizeLanguageCode(word)
           next == IF word = <<>> THEN counts
                   ELSE IF normalized = languageA
                   THEN [counts EXCEPT ![languageA] = @ + 1]
                   ELSE IF normalized = languageB
                   THEN [counts EXCEPT ![languageB] = @ + 1]
                   ELSE counts
       IN  CountWords(Tail(words), languageA, languageB, next)

\* Faulty variant: a tie goes to languageB.
DominantStrict(countA, countB, languageA, languageB) ==
  IF countA > countB THEN languageA ELSE languageB

\* settings.ts:120  counts[languageA] >= counts[languageB] ? languageA : languageB
Dominant(countA, countB, languageA, languageB) ==
  IF countA >= countB THEN languageA ELSE languageB

Max(a, b) == IF a >= b THEN a ELSE b

\* settings.ts:90-129  detectDominantLanguage; the confidence, a quotient of
\* two counts, is kept as the pair <<numerator, denominator>>.
detectDominantLanguage(words, languageA, languageB) ==
  LET counts == CountWords(words, languageA, languageB,
                           [l \in {languageA, languageB} |-> 0])
      total == counts[languageA] + counts[languageB]
  IN  IF total = 0
      THEN [language |-> languageA, other |-> languageB, confidence |-> <<0, 1>>]
      ELSE LET dominant == Dominant(counts[languageA], counts[languageB],
                                    languageA, languageB)
               other == IF dominant = languageA THEN languageB ELSE languageA
           IN  [language |-> dominant, other |-> other,
                confidence |-> <<Max(counts[languageA], counts[languageB]), total>>]

\* The language tags a word can carry, and the languages of a two-way pair.
WordTags == {<<>>, <<"nl">>, <<"NL", "BE">>, <<"fr">>, <<"fr", "FR">>, <<"en">>}
PairLanguages == {<<"nl">>, <<"fr">>, <<"en">>}

RECURSIVE WordLists(_)
WordLists(n) ==
  IF n = 0 THEN {<<>>}
  ELSE LET shorter == WordLists(n - 1)
       IN  shorter \cup {Append(w, t) : w \in shorter, t \in WordTags}

NoDetect == [pc |-> "idle", words |-> <<>>, languageA |-> <<>>, languageB |-> <<>>,
             result |-> NULL]

\* server.ts:358-359  the Transcript handler calls detectDominantLanguage.
Detect ==
  /\ detect.pc = "called"
  /\ detect' = [detect EXCEPT !.pc = "returned",
                  !.result = detectDominantLanguage(detect.words, detect.languageA,
                                                    detect.languageB)]
  /\ UNCHANGED <<storeVars, timerVars, mgrVars, route, cfgVars, sessVars, th, connVars,
                 cmdVars, llmErr, cacheVars, parseVars>>

\* --------------------------------------- LLM provider errors (openrouter-client)
\* A failure caught around axios.post: whether it is an axios error, the HTTP
\* status of the response (0: there is no response), the provider's
\* error.message and error fields of the response body, and the message of the
\* thrown error (NULL: absent or empty).
NoStatus == 0
HttpStatuses == {400, 401, 403, 429, 500}
Texts == {NULL, "text"}

\* An axios error always has a message of its own ("Network Error", "Request
\* failed with status code 500"); any other error may have none.
Failures ==
  {[axios |-> TRUE, status |-> NoStatus, errorMessage |-> NULL, error |-> NULL,
    message |-> "text"]}
  \cup {[axios |-> TRUE, status |-> st, errorMessage |-> em, error |-> e,
         message |-> "text"] : st \in HttpStatuses, em \in Texts, e \in Texts}
  \cup {[axios |-> FALSE, status |-> NoStatus, errorMessage |-> NULL, error |-> NULL,
         message |-> m] : m \in Texts}

\* a || b || c on values that are absent, empty or a non-empty text: which of
\* them the expression yields.
FirstTruthy(named) ==
  IF \E k \in DOMAIN named : named[k][2] # NULL
  THEN named[CHOOSE k \in DOMAIN named :
               named[k][2] # NULL /\ \A j \in 1 .. (k - 1) : named[j][2] = NULL][1]
  ELSE NULL

\* openrouter-client.ts:65-90, translateTextWithLLM (catch): the error thrown
\* to the caller, as its kind and the value its text carries.
ClassifyFailure(f) ==
  IF f.axios
  THEN LET apiError == FirstTruthy(<< <<"response.data.error.message", f.errorMessage>>,
                                     <<"response.data.error", f.error>>,
                                     <<"error.message", f.message>> >>)
       IN  IF f.status = 401 \/ f.status = 403
           THEN [kind |-> "invalid-api-key", carries |-> NULL]
           ELSE IF apiError # NULL
           THEN [kind |-> "provider-message", carries |-> apiError]
           ELSE [kind |-> "generic", carries |-> NULL]
  ELSE [kind |-> "generic", carries |-> NULL]

Clients == {"translateText", "translateTextWithLLM"}

NoFailure == [pc |-> "idle", client |-> NULL, failure |-> NULL, thrown |-> NULL]

\* The catch block of one of the two clients runs on a failure.
Classify ==
  /\ llmErr.pc = "caught"
  /\ llmErr' = [llmErr EXCEPT !.pc = "thrown", !.thrown = ClassifyFailure(llmErr.failure)]
  /\ UNCHANGED <<storeVars, timerVars, mgrVars, route, cfgVars, sessVars, th, connVars,
                 cmdVars, detect, cacheVars, parseVars>>

\* ------------------------------- instant translation (unnamed/part_010)
\* A text is the sequence of its characters; a language is its code.
Phrases == {<<>>, <<" ">>, <<"a">>, <<" ", "a">>}
LanguagePairs == {<<"en", "nl">>, <<"nl", "en">>}

\* What the provider does with a request: the request fails (network error or
\* a status that is not ok), or it answers with a translatedText, which may be
\* the empty string.
ProviderReplies == {"fail", "t", ""}

\* The characters \s matches and trim removes, of those the texts here hold.
WhiteSpace == {" ", "\n"}

RECURSIVE TrimStart(_)
TrimStart(text) ==
  IF text # <<>> /\ Head(text) \in WhiteSpace THEN TrimStart(Tail(text)) ELSE text

RECURSIVE TrimEnd(_)
TrimEnd(text) ==
  IF text # <<>> /\ text[Len(text)] \in WhiteSpace
  THEN TrimEnd(SubSeq(text, 1, Len(text) - 1))
  ELSE text

\* String.prototype.trim
Trim(text) == TrimEnd(TrimStart(text))

\* part_010:306  !text || text.trim().length === 0
IsBlank(text) == text = <<>> \/ Len(Trim(text)) = 0

\* part_010:297-299  getCacheKey: `${sourceLang}:${targetLang}:${text}` (the
\* language codes hold no colon, so the string determines the three parts).
getCacheKey(text, sourceLang, targetLang) == <<sourceLang, targetLang, text>>

CacheKeys(cache) == {cache[k].key : k \in DOMAIN cache}

\* Map.get: the value stored for the key, or undefined.
CacheGet(cache, key) ==
  IF key \in CacheKeys(cache)
  THEN cache[CHOOSE k \in DOMAIN cache : cache[k].key = key].val
  ELSE NULL

\* Map.set: a new key is appended; an existing key keeps its place in the
\* insertion order and gets the new value.
CacheSet(cache, key, val) ==
  IF key \in CacheKeys(cache)
  THEN [k \in DOMAIN cache |->
          IF cache[k].key = key THEN [key |-> key, val |-> val] ELSE cache[k]]
  ELSE Append(cache, [key |-> key, val |-> val])

\* part_010:312  if (cached): undefined and the empty string are falsy.
Truthy(val) == val # NULL /\ val # ""

\* Faulty variant: the entry inserted last is removed.
LimitSizeNewest(cache) ==
  IF Len(cache) > MaxCacheSize THEN SubSeq(cache, 1, Len(cache) - 1) ELSE cache

\* part_010:344-349  over capacity the first key of the map is deleted.
LimitSize(cache) ==
  IF Len(cache) > MaxCacheSize THEN Tail(cache) ELSE cache

Calls == {1, 2}
IdleCall == [pc |-> "idle", key |-> <<>>, result |-> NULL]
CacheIdle ==
  translationCache = <<>> /\ tr = [c \in Calls |-> IdleCall] /\ stored = {}

\* part_010:301-316  translateWithLibreTranslate is called: a blank text
\* returns the empty string, a cached translation is returned, else the request
\* to the provider is issued.
TranslateCall(c, text, sourceLang, targetLang) ==
  /\ tr[c].pc = "idle"
  /\ LET key == getCacheKey(text, sourceLang, targetLang)
         cached == CacheGet(translationCache, key)
     IN  tr' = [tr EXCEPT ![c] =
           IF IsBlank(text)
           THEN [pc |-> "returned", key |-> key, result |-> ""]
           ELSE IF Truthy(cached)
           THEN [pc |-> "returned", key |-> key, result |-> cached]
           ELSE [pc |-> "fetching", key |-> key, result |-> NULL]]
  /\ UNCHANGED <<translationCache, stored>>
  /\ UNCHANGED <<storeVars, timerVars, mgrVars, route, cfgVars, sessVars, th, connVars,
                 cmdVars, detect, llmErr, parseVars>>

\* part_010:321-357  the provider's reply arrives: the translation is stored,
\* the cache cut back to its capacity and the translation returned; a failed
\* request throws 'Instant translation failed'.
TranslateSettles(c, reply) ==
  /\ tr[c].pc = "fetching"
  /\ IF reply = "fail"
     THEN /\ tr' = [tr EXCEPT ![c].pc = "thrown"]
          /\ UNCHANGED <<translationCache, stored>>
     ELSE /\ translationCache' =
               LimitSize(CacheSet(translationCache, tr[c].key, reply))
          /\ stored' = stored \cup {tr[c].key}
          /\ tr' = [tr EXCEPT ![c].pc = "returned", ![c].result = reply]
  /\ UNCHANGED <<storeVars, timerVars, mgrVars, route, cfgVars, sessVars, th, connVars,
                 cmdVars, detect, llmErr, parseVars>>

\* The caller has taken the result (server.ts:383-387).
TranslateReturn(c) ==
  /\ tr[c].pc \in {"returned", "thrown"}
  /\ tr' = [tr EXCEPT ![c] = IdleCall]
  /\ UNCHANGED <<translationCache, stored>>
  /\ UNCHANGED <<storeVars, timerVars, mgrVars, route, cfgVars, sessVars, th, connVars,
                 cmdVars, detect, llmErr, parseVars>>

\* ------------------------------------------- batch reply parsing
\* A reply is the sequence of its characters; the words SEGMENT_ and
\* END_SEGMENT_ stand for their characters, which occur nowhere else.
Digits == {"1", "2", "3"}
Letters == {"a", "b"}
Alphabet == {"[", "]", "SEGMENT_", "END_SEGMENT_"} \cup Digits \cup WhiteSpace \cup Letters

DigitValue(d) == CASE d = "1" -> 1 [] d = "2" -> 2 [] d = "3" -> 3

\* parseInt of a run of digits
RECURSIVE parseInt(_)
parseInt(ds) ==
  IF ds = <<>> THEN 0
  ELSE 10 * parseInt(SubSeq(ds, 1, Len(ds) - 1)) + DigitValue(ds[Len(ds)])

\* The first position from p on whose character is not in the set S, the
\* length plus one when there is none: where a greedy S* that starts at p ends.
RECURSIVE RunEnd(_, _, _)
RunEnd(r, p, S) ==
  IF p <= Len(r) /\ r[p] \in S THEN RunEnd(r, p + 1, S) ELSE p

\* `\[` word `(\d+)\]` at position p: the position after the match, 0 for
\* no match.  word is <<>> for the numbered marker [n].
MarkerEnd(r, p, word) ==
  LET d == p + 1 + Len(word)
      e == RunEnd(r, d, Digits)
  IN  IF /\ p <= Len(r) /\ r[p] = "["
         /\ d - 1 <= Len(r) /\ SubSeq(r, p + 1, d - 1) = word
         /\ e > d /\ e <= Len(r) /\ r[e] = "]"
      THEN e + 1 ELSE 0

\* The digits of the marker that starts at p.
MarkerDigits(r, p, word) ==
  SubSeq(r, p + 1 + Len(word), MarkerEnd(r, p, word) - 2)

\* The first of a set of positions, 0 when there is none.
First(positions) ==
  IF positions = {} THEN 0
  ELSE CHOOSE k \in positions : \A j \in positions : k <= j

\* server.ts:78  /\[SEGMENT_(\d+)\]([\s\S]*?)\[END_SEGMENT_\d+\]/ tried at
\* position p: the lazy group stops at the first closing marker.  The result is
\* [num, text, next], next = 0 for no match.
NoMatch == [num |-> 0, text |-> <<>>, next |-> 0]
segmentPatternAt(r, p) ==
  LET q == MarkerEnd(r, p, <<"SEGMENT_">>)
      c == IF q = 0 THEN 0
           ELSE First({k \in q..Len(r) : MarkerEnd(r, k, <<"END_SEGMENT_">>) # 0})
  IN  IF q = 0 \/ c = 0 THEN NoMatch
      ELSE [num |-> parseInt(MarkerDigits(r, p, <<"SEGMENT_">>)),
            text |-> SubSeq(r, q, c - 1),
            next |-> MarkerEnd(r, c, <<"END_SEGMENT_">>)]

\* polishing-buffer.ts:372  /\[(\d+)\]\s*([^\[]+)/ tried at position p: the
\* group takes every character up to the next "[" and needs one at least;
\* \s* gives its last character back when nothing else is left for the group.
numberedPatternAt(r, p) ==
  LET q == MarkerEnd(r, p, <<>>)
      z == RunEnd(r, q, Alphabet \ {"["})
      w == RunEnd(r, q, WhiteSpace)
  IN  IF q = 0 \/ z = q THEN NoMatch
      ELSE [num |-> parseInt(MarkerDigits(r, p, <<>>)),
            text |-> SubSeq(r, IF w < z THEN w ELSE z - 1, z - 1),
            next |-> z]

\* The match of one of the two patterns at position p.
PatternAt(pattern, r, p) ==
  IF pattern = "segment" THEN segmentPatternAt(r, p) ELSE numberedPatternAt(r, p)

\* regex.exec with the g flag: the first match at or after lastIndex.
Exec(r, lastIndex, pattern) ==
  LET k == First({j \in lastIndex..Len(r) : PatternAt(pattern, r, j).next # 0})
  IN  IF k = 0 THEN NoMatch ELSE PatternAt(pattern, r, k)

\* Faulty variant: the segment number itself is the key.
SegmentKeyOneBased(segmentNum) == segmentNum

\* server.ts:85, polishing-buffer.ts:378  segmentNum - 1 (0-indexed)
SegmentKey(segmentNum) == segmentNum - 1

\* server.ts:81-86, polishing-buffer.ts:375-379  while ((match = exec(...)))
\* map.set(parseInt(match[1]) - 1, match[2].trim())
RECURSIVE ParseLoop(_, _, _, _)
ParseLoop(r, lastIndex, map, pattern) ==
  LET match == Exec(r, lastIndex, pattern)
  IN  IF match.next = 0 THEN map
      ELSE ParseLoop(r, match.next,
                     MapSet(map, SegmentKey(match.num), Trim(match.text)), pattern)

\* server.ts:77-86  the polish route's parsing of the batch reply
segmentPattern(polishedResponse) ==
  ParseLoop(polishedResponse, 1, EmptyMap, "segment")

\* polishing-buffer.ts:368-382
parsePolishedResult(polishedText) ==
  ParseLoop(polishedText, 1, EmptyMap, "numbered")

\* Replies in the two formats the prompts ask for.  pad gives the white space
\* before the marker, before the text, after the text and after the segment.
Digit(i) == CASE i = 1 -> "1" [] i = 2 -> "2" [] i = 3 -> "3"
SegmentTexts == {<<"a">>, <<"b">>, <<"a", " ", "b">>}
Pads == {<<>>, <<" ">>, <<"\n">>}

\* server.ts:63  `[SEGMENT_${idx + 1}]\n${text}\n[END_SEGMENT_${idx + 1}]`
MarkerSegment(i, text, pad) ==
  pad[1] \o <<"[", "SEGMENT_", Digit(i), "]">> \o pad[2] \o text \o pad[3]
         \o <<"[", "END_SEGMENT_", Digit(i), "]">> \o pad[4]

\* polishing-buffer.ts:279  `[${idx + 1}] ${text}`
NumberedSegment(i, text, pad) ==
  pad[1] \o <<"[", Digit(i), "]">> \o pad[2] \o text \o pad[3] \o pad[4]

RECURSIVE Join(_, _, _, _)
Join(texts, pad, format, n) ==
  IF n = 0 THEN <<>>
  ELSE Join(texts, pad, format, n - 1) \o
       (IF format = "markers" THEN MarkerSegment(n, texts[n], pad)
                              ELSE NumberedSegment(n, texts[n], pad))

MarkerReply(texts, pad) == Join(texts, pad, "markers", Len(texts))
NumberedReply(texts, pad) == Join(texts, pad, "numbered", Len(texts))

\* Every reply of at most n characters.
RECURSIVE RepliesUpTo(_)
RepliesUpTo(n) ==
  IF n = 0 THEN {<<>>}
  ELSE LET shorter == RepliesUpTo(n - 1)
       IN  shorter \cup {Append(r, c) : r \in shorter, c \in Alphabet}

\* The map the claim expects for segment texts: i - 1 to the trimmed text i.
Expected(texts) == [k \in 0..(Len(texts) - 1) |-> Trim(texts[k + 1])]

\* A parse call: the reply, the format it was built in ("markers", "numbered"
\* or "any") with the segment texts it was built from, and what each parser
\* returned for it once called.
NoParse ==
  [reply |-> <<>>, format |-> "none", texts |-> <<>>,
   routeDone |-> FALSE, route |-> EmptyMap,
   managerDone |-> FALSE, manager |-> EmptyMap]

\* server.ts:77-86 runs on the reply.
ParseRoute ==
  /\ parse.format # "none" /\ ~parse.routeDone
  /\ parse' = [parse EXCEPT !.routeDone = TRUE, !.route = segmentPattern(parse.reply)]
  /\ UNCHANGED <<storeVars, timerVars, mgrVars, route, cfgVars, sessVars, th, connVars,
                 cmdVars, detect, llmErr, cacheVars>>

\* polishing-buffer.ts:295 runs parsePolishedResult on the reply.
ParseManager ==
  /\ parse.format # "none" /\ ~parse.managerDone
  /\ parse' = [parse EXCEPT !.managerDone = TRUE,
                            !.manager = parsePolishedResult(parse.reply)]
  /\ UNCHANGED <<storeVars, timerVars, mgrVars, route, cfgVars, sessVars, th, connVars,
                 cmdVars, detect, llmErr, cacheVars>>

\* No library function is being called and the translation cache is empty.
PureIdle == detect = NoDetect /\ llmErr = NoFailure /\ CacheIdle /\ parse = NoParse

\* -------------------------------------------------------- specifications
\* SpecPolish: a connection whose first audio chunk has created session 1 and
\* installed its background timer (server.ts:456-477); final transcripts keep
\* arriving, the timer ticks, the client asks for manual polishes and the HTTP
\* route is called.
InitHeld(mode) ==
  /\ sessions = [s \in SessionIds |-> IF s = 1 THEN NewSession(mode) ELSE NoSession]
  /\ segments = <<>>
  /\ nextSessionId = 2
  /\ faults = 0
  /\ activePolishingSessions = {}
  /\ polishingTimers = MapSet(EmptyMap, 1, 1)
  /\ intervals = {[id |-> 1, sid |-> 1]}
  /\ att = [a \in Attempts |-> IdleAttempt]
  /\ route = IdleRoute
  /\ polishingBatchSize \in BatchSizes
  /\ sessionMode = mode
  /\ enableLivePolishing = TRUE
  /\ sessionCreated = TRUE
  /\ dbSession = 1
  /\ th = [t \in Handlers |-> IdleHandler]
  /\ socket = "connected"
  /\ ch = [h \in ChunkSlots |-> IdleChunk]
  /\ nextChunk = 2
  /\ bufferedChunks = {}
  /\ disc = IdleDisc
  /\ cmd = IdleCommand
  /\ dg = <<[NewConn EXCEPT !.state = "open", !.sends = <<1>>]>>
  /\ dgConnection = 1
  /\ dgConnectionReady = TRUE
  /\ pendingAudioChunk = 0
  /\ isRecreatingConnection = FALSE
  /\ dgErrorEmitted = FALSE
  /\ PureIdle

InitPolish == InitHeld("one-way")

Manual(a) == a = "manual"

\* The place in the order of arrival of the latest final transcript that is
\* persisted or in flight.
Transcripts == Latest("seq")

\* The replies of a provider that keeps the numbered format, or fails.
PlainReplies == {"throw", "all"}

NextPolish ==
  \/ \E a \in Attempts, s \in SessionIds : AttemptCall(a, s, Manual(a))
  \/ \E a \in Attempts, ok \in BOOLEAN : AttemptAcquire(a, ok)
  \/ \E a \in Attempts, r \in PlainReplies : AttemptLLM(a, r)
  \/ \E a \in Attempts, ok \in BOOLEAN : AttemptWrite(a, ok)
  \/ \E a \in Attempts, ok \in BOOLEAN : AttemptFinalize(a, ok)
  \/ \E a \in Attempts, ok \in BOOLEAN : AttemptRelease(a, ok)
  \/ \E a \in Attempts : AttemptReturn(a)
  \/ \E d \in Directions(sessionMode) :
       Transcripts < MaxSegs /\ TranscriptFinal(1, d)
  \/ \E r \in PlainTranslations : TranslationDone(1, r)
  \/ \E ok \in BOOLEAN : SegmentCreated(1, ok)
  \/ \E ok \in BOOLEAN : SegmentCounted(1, ok)

SpecPolish == InitPolish /\ [][NextPolish]_vars

\* SpecRoute: SpecPolish's connection with a healthy store and provider, and
\* the HTTP polish route being called for its session.
NextRoute ==
  \/ \E a \in Attempts, s \in SessionIds : AttemptCall(a, s, Manual(a))
  \/ \E a \in Attempts : AttemptAcquire(a, TRUE)
  \/ \E a \in Attempts : AttemptLLM(a, "all")
  \/ \E a \in Attempts : AttemptWrite(a, TRUE)
  \/ \E a \in Attempts : AttemptFinalize(a, TRUE)
  \/ \E a \in Attempts : AttemptRelease(a, TRUE)
  \/ \E a \in Attempts : AttemptReturn(a)
  \/ \E s \in SessionIds : RouteCall(s)
  \/ RouteRead(TRUE)
  \/ \E r \in PlainReplies : RouteLLM(r)
  \/ RouteWrite(TRUE)
  \/ RouteReturn
  \/ \E d \in Directions(sessionMode) :
       Transcripts < MaxSegs /\ TranscriptFinal(1, d)
  \/ TranslationDone(1, "text")
  \/ SegmentCreated(1, TRUE)
  \/ SegmentCounted(1, TRUE)

SpecRoute == InitPolish /\ [][NextRoute]_vars

\* InitConn: one socket connection after the handshake (server.ts:246-450):
\* no session yet, the initial upstream connection being opened (ready = FALSE)
\* or already open (ready = TRUE).
Handshake(ready) ==
  /\ sessions = [s \in SessionIds |-> NoSession]
  /\ segments = <<>>
  /\ nextSessionId = 1
  /\ faults = 0
  /\ activePolishingSessions = {}
  /\ polishingTimers = EmptyMap
  /\ intervals = {}
  /\ att = [a \in Attempts |-> IdleAttempt]
  /\ route = IdleRoute
  /\ polishingBatchSize = DefaultBatchSize
  /\ sessionMode = "one-way"
  /\ enableLivePolishing \in BOOLEAN
  /\ sessionCreated = FALSE
  /\ dbSession = 0
  /\ th = [t \in Handlers |-> IdleHandler]
  /\ socket = "connected"
  /\ ch = [h \in ChunkSlots |-> IdleChunk]
  /\ nextChunk = 1
  /\ bufferedChunks = {}
  /\ disc = IdleDisc
  /\ cmd = IdleCommand
  /\ dg = <<[NewConn EXCEPT !.state = IF ready THEN "open" ELSE "connecting"]>>
  /\ dgConnection = 1
  /\ dgConnectionReady = ready
  /\ pendingAudioChunk = 0
  /\ isRecreatingConnection = ~ready
  /\ dgErrorEmitted = FALSE

InitConn(ready) == Handshake(ready) /\ PureIdle

\* SpecSession: the session lifecycle of a connection whose upstream connection
\* is open and stays open: audio chunks, final transcripts handled one at a
\* time, disconnect.
NextSession ==
  \/ \E h \in ChunkSlots : AudioChunk(h)
  \/ \E h \in ChunkSlots, ok \in BOOLEAN : SessionCreated(h, ok)
  \/ \E d \in Directions(sessionMode) :
       Transcripts < MaxTranscripts /\ TranscriptFinal(1, d)
  \/ \E r \in PlainTranslations : TranslationDone(1, r)
  \/ \E ok \in BOOLEAN : SegmentCreated(1, ok)
  \/ \E ok \in BOOLEAN : SegmentCounted(1, ok)
  \/ Disconnect
  \/ \E ok \in BOOLEAN : DiscRead(ok)
  \/ \E ok, cascade \in BOOLEAN : DiscDelete(ok, cascade)
  \/ \E ok \in BOOLEAN : DiscUpdate(ok)

SpecSession == InitConn(TRUE) /\ [][NextSession]_vars

\* SpecEntryPoints: SpecPolish's connection with a healthy store and LLM, an
\* instant-translation provider whose reply may lack the translated text, and
\* both polish entry points: attemptPolishing and the HTTP route.
NextEntryPoints ==
  \/ \E a \in Attempts, s \in SessionIds : AttemptCall(a, s, Manual(a))
  \/ \E a \in Attempts : AttemptAcquire(a, TRUE)
  \/ \E a \in Attempts : AttemptLLM(a, "all")
  \/ \E a \in Attempts : AttemptWrite(a, TRUE)
  \/ \E a \in Attempts : AttemptFinalize(a, TRUE)
  \/ \E a \in Attempts : AttemptRelease(a, TRUE)
  \/ \E a \in Attempts : AttemptReturn(a)
  \/ \E s \in SessionIds : RouteCall(s)
  \/ RouteRead(TRUE)
  \/ RouteLLM("all")
  \/ RouteWrite(TRUE)
  \/ RouteReturn
  \/ \E d \in Directions(sessionMode) :
       Transcripts < MaxTranscripts /\ TranscriptFinal(1, d)
  \/ \E r \in Translations : TranslationDone(1, r)
  \/ SegmentCreated(1, TRUE)
  \/ SegmentCounted(1, TRUE)

SpecEntryPoints == InitPolish /\ [][NextEntryPoints]_vars

\* SpecTwoWay: a connection in two-way mode whose first audio chunk has created
\* its session; final transcripts of either direction (or of none, when the
\* transcript carries no words) arrive and are persisted, and the client and
\* the timer ask for polishes.  The store is healthy.
NextTwoWay ==
  \/ \E a \in Attempts, s \in SessionIds : AttemptCall(a, s, Manual(a))
  \/ \E a \in Attempts : AttemptAcquire(a, TRUE)
  \/ \E a \in Attempts, r \in PlainReplies : AttemptLLM(a, r)
  \/ \E a \in Attempts : AttemptWrite(a, TRUE)
  \/ \E a \in Attempts : AttemptFinalize(a, TRUE)
  \/ \E a \in Attempts : AttemptRelease(a, TRUE)
  \/ \E a \in Attempts : AttemptReturn(a)
  \/ \E d \in Directions(sessionMode) :
       Transcripts < MaxTranscripts /\ TranscriptFinal(1, d)
  \/ TranslationDone(1, "text")
  \/ SegmentCreated(1, TRUE)
  \/ SegmentCounted(1, TRUE)

SpecTwoWay == InitHeld("two-way") /\ [][NextTwoWay]_vars

\* SpecParse: SpecPolish's connection with a healthy store and an LLM whose
\* replies the parser reads in full, in part, or not at all.
NextParse ==
  \/ \E a \in Attempts, s \in SessionIds : AttemptCall(a, s, Manual(a))
  \/ \E a \in Attempts : AttemptAcquire(a, TRUE)
  \/ \E a \in Attempts, r \in Replies : AttemptLLM(a, r)
  \/ \E a \in Attempts : AttemptWrite(a, TRUE)
  \/ \E a \in Attempts : AttemptFinalize(a, TRUE)
  \/ \E a \in Attempts : AttemptRelease(a, TRUE)
  \/ \E a \in Attempts : AttemptReturn(a)
  \/ \E d \in Directions(sessionMode) :
       Transcripts < MaxSegs /\ TranscriptFinal(1, d)
  \/ TranslationDone(1, "text")
  \/ SegmentCreated(1, TRUE)
  \/ SegmentCounted(1, TRUE)

SpecParse == InitPolish /\ [][NextParse]_vars

\* SpecTick: SpecPolish's connection polished by the interval callback alone,
\* with a store that can fail and an LLM call that can throw.
NextTick ==
  \/ \E s \in SessionIds : AttemptCall("timer", s, FALSE)
  \/ \E ok \in BOOLEAN : AttemptAcquire("timer", ok)
  \/ \E r \in PlainReplies : AttemptLLM("timer", r)
  \/ \E ok \in BOOLEAN : AttemptWrite("timer", ok)
  \/ \E ok \in BOOLEAN : AttemptFinalize("timer", ok)
  \/ \E ok \in BOOLEAN : AttemptRelease("timer", ok)
  \/ AttemptReturn("timer")
  \/ \E d \in Directions(sessionMode) :
       Transcripts < MaxSegs /\ TranscriptFinal(1, d)
  \/ \E r \in PlainTranslations : TranslationDone(1, r)
  \/ \E ok \in BOOLEAN : SegmentCreated(1, ok)
  \/ \E ok \in BOOLEAN : SegmentCounted(1, ok)

SpecTick == InitPolish /\ [][NextTick]_vars

\* SpecTranscripts: SpecPolish's connection with final transcripts whose
\* handlers overlap: a second transcript arrives while the first is still being
\* translated or persisted.
NextTranscripts ==
  \/ \E t \in Handlers, d \in Directions(sessionMode) :
       Transcripts < MaxTranscripts /\ TranscriptFinal(t, d)
  \/ \E t \in Handlers, r \in PlainTranslations : TranslationDone(t, r)
  \/ \E t \in Handlers, ok \in BOOLEAN : SegmentCreated(t, ok)
  \/ \E t \in Handlers, ok \in BOOLEAN : SegmentCounted(t, ok)

SpecTranscripts == InitPolish /\ [][NextTranscripts]_vars

\* SpecUpstream: the upstream connection lifecycle of a connection with a
\* healthy store and translation provider: audio chunks, the upstream
\* provider's Open, Close and Error events, a final transcript, disconnect.
NextUpstream ==
  \/ \E h \in ChunkSlots : AudioChunk(h)
  \/ \E h \in ChunkSlots : SessionCreated(h, TRUE)
  \/ \E c \in 1 .. MaxConns : DgOpen(c)
  \/ \E c \in 1 .. MaxConns : DgClose(c)
  \/ \E c \in 1 .. MaxConns : DgError(c)
  \/ \E d \in Directions(sessionMode) :
       Transcripts = 0 /\ TranscriptFinal(1, d)
  \/ TranslationDone(1, "text")
  \/ SegmentCreated(1, TRUE)
  \/ SegmentCounted(1, TRUE)
  \/ Disconnect
  \/ DiscRead(TRUE)
  \/ \E cascade \in BOOLEAN : DiscDelete(TRUE, cascade)
  \/ DiscUpdate(TRUE)

SpecUpstream == InitConn(FALSE) /\ [][NextUpstream]_vars

\* The Open event of the connection held.
OpenHeld(c) == c = dgConnection /\ DgOpen(c)

\* The Close event of a connection on which finish() was called.
CloseFinished(c) == c \in DOMAIN dg /\ dg[c].finished /\ DgClose(c)

\* SpecReconnect: a connected client that keeps sending audio while the
\* upstream connection is not ready, with a healthy store.  The client keeps
\* sending (weak fairness of the chunk events), session creation resolves,
\* the provider acknowledges the opening of a connection that stays the one
\* held (weak fairness of its Open event) and closes a connection that was
\* finished (weak fairness of its Close event), after which its record is
\* discarded.
NextReconnect ==
  \/ \E h \in ChunkSlots : AudioStream(h)
  \/ \E h \in ChunkSlots : SessionCreated(h, TRUE)
  \/ \E c \in 1 .. MaxConns : DgOpen(c)
  \/ \E c \in 1 .. MaxConns : DgClose(c)
  \/ \E c \in 1 .. MaxConns : DgError(c)
  \/ Forget

SpecReconnect ==
  /\ InitConn(FALSE)
  /\ [][NextReconnect]_vars
  /\ WF_vars(\E h \in ChunkSlots : AudioStream(h))
  /\ WF_vars(\E h \in ChunkSlots : SessionCreated(h, TRUE))
  /\ \A c \in 1 .. MaxConns : WF_vars(OpenHeld(c))
  /\ \A c \in 1 .. MaxConns : WF_vars(CloseFinished(c))
  /\ WF_vars(Forget)

\* SpecTeardown: the connection of SpecPolish with its teardown: transcripts
\* are persisted, manual and timer invocations and the disconnect handler run
\* with every store and provider outcome (one manual and one timer invocation
\* per behaviour), and the socket disconnects at any moment.  Every store
\* operation and LLM call an invocation awaits settles (weak fairness of the
\* step that follows each await).
AttemptStep(a) ==
  \/ \E ok \in BOOLEAN : AttemptAcquire(a, ok)
  \/ \E r \in PlainReplies : AttemptLLM(a, r)
  \/ \E ok \in BOOLEAN : AttemptWrite(a, ok)
  \/ \E ok \in BOOLEAN : AttemptFinalize(a, ok)
  \/ \E ok \in BOOLEAN : AttemptRelease(a, ok)

NextTeardown ==
  \/ \E a \in Attempts, s \in SessionIds : AttemptCall(a, s, Manual(a))
  \/ \E a \in Attempts : AttemptStep(a)
  \/ \E d \in Directions(sessionMode) :
       Transcripts < MaxTranscripts /\ TranscriptFinal(1, d)
  \/ \E r \in PlainTranslations : TranslationDone(1, r)
  \/ SegmentCreated(1, TRUE)
  \/ SegmentCounted(1, TRUE)
  \/ Disconnect
  \/ \E ok \in BOOLEAN : DiscRead(ok)
  \/ \E ok, cascade \in BOOLEAN : DiscDelete(ok, cascade)
  \/ \E ok \in BOOLEAN : DiscUpdate(ok)

SpecTeardown ==
  /\ InitPolish
  /\ [][NextTeardown]_vars
  /\ \A a \in Attempts : WF_vars(AttemptStep(a))

\* SpecCommand: a connection from its handshake on: the first audio chunk
\* creates the session, transcripts are persisted, the timer ticks, and the
\* client sends polish-current-session commands, before and after the session
\* exists.  Every store operation and LLM call that is awaited settles.
NextCommand ==
  \/ AudioChunk(1)
  \/ \E ok \in BOOLEAN : SessionCreated(1, ok)
  \/ \E d \in Directions(sessionMode) :
       Transcripts < MaxTranscripts /\ TranscriptFinal(1, d)
  \/ \E r \in PlainTranslations : TranslationDone(1, r)
  \/ SegmentCreated(1, TRUE)
  \/ SegmentCounted(1, TRUE)
  \/ PolishCommand
  \/ PolishResult
  \/ \E ok \in BOOLEAN : PolishRead(ok)
  \/ PolishReturn
  \/ \E s \in SessionIds : AttemptCall("timer", s, FALSE)
  \/ \E a \in Attempts : AttemptStep(a)
  \/ AttemptReturn("timer")

SpecCommand ==
  /\ InitConn(TRUE)
  /\ [][NextCommand]_vars
  /\ \A a \in Attempts : WF_vars(AttemptStep(a))
  /\ WF_vars(PolishResult)
  /\ WF_vars(\E ok \in BOOLEAN : PolishRead(ok))

\* SpecTimers: the manager's timer functions called in any order for any
\* session id, by the connection (first chunk, disconnect) and directly, with
\* live polishing enabled or not; the live timers tick.
NextTimers ==
  \/ \E s \in SessionIds : StartCall(s)
  \/ \E s \in SessionIds : StopCall(s)
  \/ StopAllCall
  \/ AudioChunk(1)
  \/ \E ok \in BOOLEAN : SessionCreated(1, ok)
  \/ Disconnect
  \/ \E s \in SessionIds : AttemptCall("timer", s, FALSE)
  \/ \E ok \in BOOLEAN : AttemptAcquire("timer", ok)
  \/ \E ok \in BOOLEAN : AttemptRelease("timer", ok)
  \/ AttemptReturn("timer")

SpecTimers == (\E ready \in BOOLEAN : InitConn(ready)) /\ [][NextTimers]_vars

\* SpecCache: translateWithLibreTranslate called, by overlapping Transcript
\* handlers, with any text and language pair, the provider answering or
\* failing.
NextCache ==
  \/ \E c \in Calls, text \in Phrases, p \in LanguagePairs :
       TranslateCall(c, text, p[1], p[2])
  \/ \E c \in Calls, reply \in ProviderReplies : TranslateSettles(c, reply)
  \/ \E c \in Calls : TranslateReturn(c)

SpecCache == InitConn(TRUE) /\ [][NextCache]_vars

\* SpecReplyParse: the two reply parsers called on every reply of up to
\* MaxReplySegs segments in the marker format and in the numbered format, with
\* any white space around markers and texts, and on every reply of up to
\* MaxReplyLen characters.
BuiltReplies(format) ==
  {[NoParse EXCEPT !.format = format, !.texts = texts,
                   !.reply = Join(texts, pad, format, Len(texts))] :
     texts \in UNION {[1..n -> SegmentTexts] : n \in 1..MaxReplySegs},
     pad \in [1..4 -> Pads]}

InitReplyParse ==
  /\ Handshake(TRUE)
  /\ detect = NoDetect
  /\ llmErr = NoFailure
  /\ CacheIdle
  /\ parse \in BuiltReplies("markers") \cup BuiltReplies("numbered") \cup
               {[NoParse EXCEPT !.format = "any", !.reply = r] :
                  r \in RepliesUpTo(MaxReplyLen)}

NextReplyParse == ParseRoute \/ ParseManager

SpecReplyParse == InitReplyParse /\ [][NextReplyParse]_vars

\* SpecDetect: detectDominantLanguage called on every word list of up to
\* MaxWords tagged words and every language pair.
InitDetect ==
  /\ Handshake(TRUE)
  /\ detect \in {[NoDetect EXCEPT !.pc = "called", !.words = w,
                                   !.languageA = a, !.languageB = b] :
                   w \in WordLists(MaxWords), a \in PairLanguages, b \in PairLanguages}
  /\ llmErr = NoFailure
  /\ CacheIdle
  /\ parse = NoParse

NextDetect == Detect

SpecDetect == InitDetect /\ [][NextDetect]_vars

\* SpecClassify: the catch block of an LLM client on every failure of its
\* axios.post call.
InitClassify ==
  /\ Handshake(TRUE)
  /\ detect = NoDetect
  /\ llmErr \in {[NoFailure EXCEPT !.pc = "caught", !.client = c, !.failure = f] :
                   c \in Clients, f \in Failures}
  /\ CacheIdle
  /\ parse = NoParse

NextClassify == Classify

SpecClassify == InitClassify /\ [][NextClassify]_vars

\* SpecFirstChunk: the audio chunks of a connection from the handshake on, with
\* an upstream connection that is open or still connecting, a store that can
\* fail, and the client's disconnect (no transcript arrives, so the session
\* stays empty).
NextFirstChunk ==
  \/ \E h \in ChunkSlots : AudioChunk(h)
  \/ \E h \in ChunkSlots, ok \in BOOLEAN : SessionCreated(h, ok)
  \/ \E c \in 1 .. MaxConns : DgOpen(c)
  \/ \E c \in 1 .. MaxConns : DgClose(c)
  \/ \E c \in 1 .. MaxConns : DgError(c)
  \/ Disconnect
  \/ \E ok \in BOOLEAN : DiscRead(ok)
  \/ \E ok, cascade \in BOOLEAN : DiscDelete(ok, cascade)

SpecFirstChunk ==
  (\E ready \in BOOLEAN : InitConn(ready)) /\ [][NextFirstChunk]_vars

\* ------------------------------------------------------------- properties
\* An invocation that has issued its lock update and has not returned.
Running(a) == att[a].pc \in {"acquire", "llm", "write", "finalize", "release"}

\* An invocation past lock acquisition that has not finished.
Holding(a) == att[a].pc \in {"llm", "write", "finalize", "release"}

\* An invocation that acquired the lock (now or before it returned).
Acquired(a) == Holding(a) \/ (att[a].pc = "done" /\ att[a].status # "busy")

\* An invocation that is inside a batch polish: the LLM call, the segment
\* updates or the completion update.
Polishing(a) == att[a].pc \in {"llm", "write", "finalize"}

\* a returns in this step.
Returns(a) == att[a].pc # "done" /\ att'[a].pc = "done"

\* C1 (part): at every instant at most one invocation per session is past lock
\* acquisition and not yet finished.
C1_AtMostOneHolder ==
  \A s \in SessionIds :
    Cardinality({a \in Attempts : Holding(a) /\ att[a].sid = s}) <= 1

\* C1 (part): an invocation called while another invocation for the same
\* session is running returns busy at once.
C1_RivalBusy ==
  \A a \in Attempts :
    (att[a].pc = "idle" /\ att'[a].pc # "idle"
       /\ \E b \in Attempts \ {a} : Running(b) /\ att[b].sid = att'[a].sid)
    => (att'[a].pc = "done" /\ att'[a].status = "busy")

\* C1 (part): one of the contenders proceeds: as long as no store operation has
\* failed, an invocation returns busy only while another invocation for that
\* session is running.
C1_OneProceeds ==
  \A a \in Attempts :
    (Returns(a) /\ att'[a].status = "busy" /\ faults' = 0
       /\ sessions[att'[a].sid].exists)
    => \E b \in Attempts \ {a} : Running(b) /\ att[b].sid = att'[a].sid

\* C1: for any session and any number of concurrent attemptPolishing
\* invocations, at most one is past lock acquisition and not yet finished at any
\* instant; of simultaneous attempts exactly one proceeds and the others return
\* busy.
C1_MutualExclusion ==
  /\ []C1_AtMostOneHolder
  /\ [][C1_RivalBusy /\ C1_OneProceeds]_vars

\* C1 witness: two invocations contend for one session; one holds the lock and
\* is in its LLM call, the other has returned busy.
C1_Witness ==
  \E a, b \in Attempts :
    /\ a # b /\ att[a].sid = att[b].sid
    /\ att[a].pc = "llm"
    /\ att[b].pc = "done" /\ att[b].status = "busy"

\* C2 (as claimed): every invocation that acquired the persisted lock leaves the
\* session's isPolishing flag false when it returns, on every exit path.
C2_LockReleasedOnReturn ==
  [][\A a \in Attempts :
       (Holding(a) /\ Returns(a)) => ~sessions'[att[a].sid].isPolishing]_vars

\* C2 (amended): every invocation that acquired the persisted lock ends with an
\* unlock write (releaseLock, or the completion update), and leaves isPolishing
\* false when it returns unless that last unlock write itself failed.
C2_LockReleasedUnlessUnlockFails ==
  [][\A a \in Attempts :
       (Holding(a) /\ Returns(a))
       => /\ att[a].pc \in {"release", "finalize"}
          /\ (faults' = faults => ~sessions'[att[a].sid].isPolishing)]_vars

\* C2 witness: an invocation has returned error after acquiring the lock (its
\* LLM call threw) and the session is unlocked, with status error.
C2_Witness ==
  \E a \in Attempts :
    /\ att[a].pc = "done" /\ att[a].status = "error" /\ att[a].message = "llm"
    /\ ~sessions[att[a].sid].isPolishing
    /\ sessions[att[a].sid].polishingStatus = "error"

\* C3: a polish started through the HTTP route never overlaps a polish of the
\* same session started by attemptPolishing.
C3_RouteExcluded ==
  \A a \in Attempts :
    ~(Polishing(a) /\ route.pc \in {"llm", "write"} /\ route.sid = att[a].sid)

\* C4: an invocation that returns busy performs no work: on the in-memory path
\* it returns within the call, with no store operation issued; on the lock-update
\* path it returns without an LLM call and leaves every session and segment
\* field, the other holder's lock flag included, as it was.
C4_BusyNoWork ==
  [][\A a \in Attempts :
       (Returns(a) /\ att'[a].status = "busy")
       => /\ sessions' = sessions /\ segments' = segments
          /\ att'[a].llmCalls = 0
          /\ att'[a].fast <=> att[a].pc = "idle"
          /\ att'[a].fast => UNCHANGED storeVars
          /\ ~att'[a].fast => att[a].pc = "acquire"]_vars

\* C4 witness: an invocation has returned busy from the lock update while the
\* session's lock flag is set, and the flag is still set.
C4_Witness ==
  \E a \in Attempts :
    /\ att[a].pc = "done" /\ att[a].status = "busy" /\ ~att[a].fast
    /\ sessions[att[a].sid].isPolishing

\* C5: an automatic attempt with a backlog of n segments makes an LLM batch call
\* iff n >= polishingBatchSize, and below that returns success with polishedCount
\* 0; a manual attempt makes an LLM call whenever n >= 1.
C5_ConfiguredBatchSize ==
  \A a \in Attempts :
    Acquired(a) =>
      LET n == Len(att[a].backlog) IN
      IF att[a].manual
      THEN (n >= 1) => att[a].llmCalls >= 1
      ELSE /\ (att[a].llmCalls >= 1) <=> (n >= polishingBatchSize)
           /\ (n < polishingBatchSize /\ att[a].pc = "done")
                => (att[a].status = "success" /\ att[a].polishedCount = 0)

\* C6: one-way session, default settings.  A timer tick that finds 4 segments
\* returns success with polishedCount 0, makes no LLM call, leaves the session
\* idle and unlocked and polishes nothing; a timer tick that finds 5 segments
\* makes exactly one LLM batch call and, when it returns success, has polished
\* all 5; it returns anything else only if the LLM call threw or a store
\* operation failed.
C6_TimerScenario ==
  [][\A a \in Attempts :
       LET s == att[a].sid
           backlog == att'[a].backlog
       IN
       (Returns(a) /\ ~att'[a].manual /\ att'[a].status # "busy"
          /\ sessions[s].mode = "one-way" /\ polishingBatchSize = DefaultBatchSize)
       => /\ (Len(backlog) = 4 /\ faults' = 0) =>
               /\ att'[a].status = "success" /\ att'[a].polishedCount = 0
               /\ att'[a].llmCalls = 0
               /\ sessions'[s].polishingStatus = "idle" /\ ~sessions'[s].isPolishing
               /\ segments' = segments
               /\ \A k \in DOMAIN backlog : segments'[backlog[k]].pol = NULL
          /\ Len(backlog) = 5 =>
               /\ att'[a].llmCalls = 1
               /\ att'[a].status = "success" =>
                    /\ att'[a].polishedCount = 5
                    /\ \A k \in DOMAIN backlog : segments'[backlog[k]].pol # NULL
               /\ att'[a].status # "success" =>
                    (att'[a].message = "llm" \/ faults' > 0)]_vars

\* C6 witness: with default settings a timer tick that found a backlog of 5 has
\* returned success with polishedCount 5 after one LLM call.
C6_Witness ==
  \E a \in Attempts :
    /\ att[a].pc = "done" /\ ~att[a].manual /\ att[a].status = "success"
    /\ Len(att[a].backlog) = 5 /\ att[a].polishedCount = 5 /\ att[a].llmCalls = 1
    /\ polishingBatchSize = DefaultBatchSize

C8_NoDeleteAfterSegment ==
  [][(disc.pc = "reading" /\ disc'.pc = "deleting" /\ faults' = 0)
       => SegmentsOf(disc.sid) = <<>>]_vars

\* C9: each client connection creates at most one Session row, whatever the
\* timing of its audio chunks.
C9_AtMostOneSession == nextSessionId - 1 <= 1

Count(x, seq) == Cardinality({i \in DOMAIN seq : seq[i] = x})

\* C10 (part): a single chunk that the audio-chunk handler found the upstream
\* connection not ready for is either still pending (and the connection still not ready), or has
\* been sent exactly once, on the connection held, and on no other.
C10_NoDropNoDuplicate ==
  \A x \in bufferedChunks :
    bufferedChunks = {x} =>
      \/ /\ pendingAudioChunk = x /\ ~dgConnectionReady
         /\ \A c \in DOMAIN dg : Count(x, dg[c].sends) = 0
      \/ /\ pendingAudioChunk = 0
         /\ Count(x, dg[dgConnection].sends) = 1
         /\ \A c \in DOMAIN dg \ {dgConnection} : Count(x, dg[c].sends) = 0

\* C10 (part): in the step that makes the connection ready while that single
\* chunk is pending, the connection held has received exactly one send call,
\* with the chunk's payload.
C10_SentOnReady ==
  (pendingAudioChunk # 0 /\ bufferedChunks = {pendingAudioChunk}
     /\ ~dgConnectionReady /\ dgConnectionReady')
  => /\ dg'[dgConnection'].sends = <<pendingAudioChunk>>
     /\ pendingAudioChunk' = 0

Handled(x) ==
  \/ /\ sessionCreated /\ socket = "connected"
     /\ nextChunk = x /\ nextChunk' = x + 1
  \/ \E h \in ChunkSlots :
       /\ ch[h].pc = "creating" /\ ch[h].data = x
       /\ ch'[h].pc = "idle" /\ faults' = faults

\* C11 (part): while the connection is ready the pending slot is empty.
C11_ReadyPendingEmpty == dgConnectionReady => pendingAudioChunk = 0

\* C11 (part): a chunk handled while not ready replaces the pending chunk and
\* a new connection replaces the one held; a chunk handled while ready is sent
\* at once on the connection held and the pending slot stays empty.
C11_ChunkStep ==
  \A x \in 1 .. nextChunk :
    Handled(x) =>
      IF ~dgConnectionReady
      THEN /\ pendingAudioChunk' = x
           /\ Len(dg') = Len(dg) + 1 /\ dgConnection' = Len(dg')
           /\ dg'[dgConnection'] = NewConn
           /\ ~dgConnectionReady'
      ELSE /\ dg' = [dg EXCEPT ![dgConnection].sends = Append(@, x)]
           /\ pendingAudioChunk' = 0 /\ dgConnection' = dgConnection

\* C11 (part): in the step that makes the connection ready, the pending chunk
\* (if any) is appended to the sends of the connection held, ahead of every
\* chunk handled later, and the pending slot is cleared.
C11_ReadyStep ==
  (~dgConnectionReady /\ dgConnectionReady')
  => /\ pendingAudioChunk' = 0
     /\ dgConnection' = dgConnection
     /\ dg'[dgConnection].sends =
          IF pendingAudioChunk # 0
          THEN Append(dg[dgConnection].sends, pendingAudioChunk)
          ELSE dg[dgConnection].sends

Unfinished == {c \in DOMAIN dg : ~dg[c].finished}

\* C12: at every moment the client connection has at most one upstream
\* connection that has not been finished, and it is the one held.
C12_OneLiveUpstream ==
  /\ Cardinality(Unfinished) <= 1
  /\ Unfinished \subseteq {dgConnection}

\* C12 witness: the connection was recreated twice; the two replaced
\* connections are finished and the one held is not.
C12_Witness ==
  /\ Len(dg) = 3 /\ dgConnection = 3
  /\ dg[1].finished /\ dg[2].finished /\ ~dg[3].finished

\* Connection c is closed in this step.
Closes(c) == c \in DOMAIN dg /\ dg[c].state # "closed" /\ dg'[c].state = "closed"

\* C13: while the client is connected, the Close handler of an upstream
\* connection emits deepgram-closed exactly when the close was not caused by a
\* recreate, that is when finish() had not been called on that connection:
\* never for a replaced connection, always for a close by the provider, a
\* close before the connection ever opened included.
C13_ClosedEmittedIffUnexpected ==
  [][\A c \in 1 .. MaxConns :
       (Closes(c) /\ socket = "connected")
       => (dg'[c].closedEmitted <=> ~dg[c].finished)]_vars

\* C14: while the client keeps sending audio chunks, an upstream connection
\* that is not ready is recreated and eventually becomes ready, provided the
\* provider acknowledges the opening of a connection that is not replaced;
\* chunks that arrive while a recreate is connecting do not prevent it.
C14_EventuallyReady == ~dgConnectionReady ~> dgConnectionReady

\* C15: within one connection segments are persisted in the arrival order of
\* their final transcripts: of two persisted segments the one whose transcript
\* arrived first was created first and has a start time not later than the
\* other's.
C15_PersistedInArrivalOrder ==
  \A i, j \in SegIds :
    segments[i].seq < segments[j].seq
    => (i < j /\ segments[i].startTime <= segments[j].startTime)

\* C16: in every reachable state of the store, every segment whose
\* polishedTranslation is non-null has a non-null rawTranslation, whichever
\* polish entry point wrote it.
C16_PolishedImpliesRaw ==
  \A i \in SegIds : segments[i].pol # NULL => segments[i].raw # NULL

\* The translationDirection values of the segments of an LLM batch call.
DirectionsIn(call) == {segments[call.segs[k]].dir : k \in DOMAIN call.segs}

\* C17: in a two-way session every LLM batch call of a polish attempt contains
\* segments of one translationDirection only, with (languageA, languageB) as
\* source and target for A_to_B and (languageB, languageA) for B_to_A, and an
\* attempt makes at most one call per direction.
C17_OneDirectionPerCall ==
  \A a \in Attempts :
    (att[a].sid # 0 /\ sessions[att[a].sid].mode = "two-way")
    => LET calls == att[a].calls IN
       /\ \A k \in DOMAIN calls :
            \/ /\ DirectionsIn(calls[k]) = {"A_to_B"}
               /\ calls[k].source = "languageA" /\ calls[k].target = "languageB"
            \/ /\ DirectionsIn(calls[k]) = {"B_to_A"}
               /\ calls[k].source = "languageB" /\ calls[k].target = "languageA"
       /\ \A k, l \in DOMAIN calls :
            k # l => DirectionsIn(calls[k]) # DirectionsIn(calls[l])
       /\ Len(calls) = att[a].llmCalls

\* C17 witness: a polish attempt on a two-way session whose backlog holds both
\* directions has made two calls, the first for A_to_B, the second for B_to_A.
C17_Witness ==
  \E a \in Attempts :
    /\ att[a].sid # 0 /\ sessions[att[a].sid].mode = "two-way"
    /\ Len(att[a].calls) = 2
    /\ DirectionsIn(att[a].calls[1]) = {"A_to_B"}
    /\ DirectionsIn(att[a].calls[2]) = {"B_to_A"}

\* The group of the LLM call whose updates attempt a is about to issue.
GroupOf(a) == Head(att[a].groups).segs

\* Attempt a's group updates settle and the attempt goes on.
Writes(a) == att[a].pc = "write" /\ att'[a].pc \in {"llm", "finalize"}

\* The whole group is counted, and the attempt that goes on to its completion
\* update returns success with that count.
GroupCounted(a) ==
  /\ Writes(a) => att'[a].total = att[a].total + Len(GroupOf(a))
  /\ (att[a].pc = "finalize" /\ att'[a].pc = "done")
       => (att'[a].status = "success" /\ att'[a].polishedCount = att[a].total)

C19_NoTimerAfterDisconnect ==
  disc.pc = "done" => DOMAIN polishingTimers \cap (1 .. (nextSessionId - 1)) = {}

\* One of attempt a's store operations is rejected in this step.
StoreFails(a, pcs) ==
  att[a].pc \in pcs /\ att'[a] # att[a] /\ faults' = faults + 1

\* The LLM call of attempt a either returns a reply or ends in the catch block.
LLMCaught(a) ==
  (att[a].pc = "llm" /\ att'[a] # att[a])
    => (att'[a].pc = "write" \/ (att'[a].pc = "release" /\ att'[a].status = "error"))

\* What attemptPolishing does apart from the status it picks on a failure: its
\* promise resolves with one of the three statuses, releaseLock leaves the
\* result as it was, no step of an invocation touches the timers, and a tick
\* of an installed timer can start a new invocation once the last has returned.
SettlesAndTimerStays ==
  /\ [](\A a \in Attempts :
          /\ att[a].pc = "done" => att[a].status \in {"success", "busy", "error"}
          /\ \A s \in DOMAIN polishingTimers :
               att["timer"].pc = "idle" => ENABLED AttemptCall("timer", s, FALSE))
  /\ [][\A a \in Attempts :
          /\ LLMCaught(a)
          /\ (att[a].pc = "release" /\ att'[a].pc = "done")
               => att'[a].status = att[a].status
          /\ att'[a] # att[a] => polishingTimers' = polishingTimers]_vars

\* C20 as stated: attemptPolishing never rejects; whenever the LLM call or a
\* store write fails after lock acquisition it returns status error; a failing
\* tick leaves the timer installed and the next tick makes a fresh attempt.
C20_FailureReturnsError ==
  /\ SettlesAndTimerStays
  /\ [][\A a \in Attempts :
          StoreFails(a, {"write", "finalize", "release"})
            => att'[a].status = "error"]_vars

\* C20, amended: the same, with status error promised for a failing LLM call,
\* segment update or completion update; a failing releaseLock write is
\* swallowed and the invocation returns the result of the path it was on.
C20_FailureReturnsErrorUnlessUnlock ==
  /\ SettlesAndTimerStays
  /\ [][\A a \in Attempts :
          StoreFails(a, {"write", "finalize"})
            => (att'[a].status = "error" /\ att'[a].pc = "release")]_vars

\* C20 witness: a background tick whose segment updates failed has returned
\* status error; the session's timer is installed and a new tick can start.
C20_Witness ==
  \E s \in DOMAIN polishingTimers :
    /\ att["timer"].pc = "idle"
    /\ faults = 1
    /\ sessions[s].polishingStatus = "error"
    /\ ~sessions[s].isPolishing
    /\ s \notin activePolishingSessions
    /\ ENABLED AttemptCall("timer", s, FALSE)
\* The words of a list whose tag, reduced to its lowercase primary subtag, is
\* the language.
Tagged(words, language) ==
  {k \in DOMAIN words :
     /\ words[k] # <<>>
     /\ <<ToLowerCase(words[k][1])>> = language}

\* C21: detectDominantLanguage counts the words whose reduced tag is A or B; it
\* returns (A, B) when countA >= countB (ties and the all-zero case included)
\* and (B, A) otherwise, with confidence max(countA, countB)/(countA + countB),
\* or 0 when both counts are zero.
C21_DominantLanguage ==
  detect.pc = "returned" =>
    LET countA == Cardinality(Tagged(detect.words, detect.languageA))
        countB == Cardinality(Tagged(detect.words, detect.languageB))
        r == detect.result
    IN  /\ countA >= countB
             => (r.language = detect.languageA /\ r.other = detect.languageB)
        /\ countA < countB
             => (r.language = detect.languageB /\ r.other = detect.languageA)
        /\ IF countA + countB = 0
           THEN r.confidence[1] = 0
           ELSE r.confidence[1] * (countA + countB)
                  = Max(countA, countB) * r.confidence[2]
        /\ r.confidence[2] > 0

\* C21 witness: words tagged nl, nl, fr with languageA nl and languageB fr
\* give dominant nl with confidence 2/3.
C21_Witness ==
  /\ detect.pc = "returned"
  /\ detect.words = << <<"nl">>, <<"nl">>, <<"fr">> >>
  /\ detect.languageA = <<"nl">> /\ detect.languageB = <<"fr">>
  /\ detect.result.language = <<"nl">> /\ detect.result.other = <<"fr">>
  /\ detect.result.confidence[1] * 3 = 2 * detect.result.confidence[2]
\* C22: a failed provider call gives exactly one of three errors: the
\* invalid-API-key error for a 401 or 403 response, an error carrying the
\* provider's message for any other response, and the generic failure error
\* for a network-level failure without a response.
C22_ErrorKinds ==
  llmErr.pc = "thrown" =>
    LET f == llmErr.failure IN
    /\ llmErr.thrown.kind \in {"invalid-api-key", "provider-message", "generic"}
    /\ f.status \in {401, 403} => llmErr.thrown.kind = "invalid-api-key"
    /\ (f.status \in HttpStatuses \ {401, 403})
         => llmErr.thrown.kind = "provider-message"
    /\ (f.axios /\ f.status = NoStatus) => llmErr.thrown.kind = "generic"
\* The chunks that have been sent on an upstream connection or stored as the
\* pending chunk.
Forwarded ==
  bufferedChunks
    \cup UNION {{dg[c].sends[k] : k \in DOMAIN dg[c].sends} : c \in DOMAIN dg}

\* C23: a chunk is forwarded to, or buffered for, the upstream connection only
\* once the session record has been created and, when live polishing is
\* enabled, its timer started; a chunk whose session creation fails is not
\* forwarded and an error is emitted instead.
C23_SessionBeforeForward ==
  [][/\ \A x \in Forwarded' \ Forwarded :
          /\ sessionCreated' /\ dbSession' # 0 /\ sessions'[dbSession'].exists
          /\ enableLivePolishing => dbSession' \in DOMAIN polishingTimers'
      /\ \A h \in ChunkSlots :
          (ch[h].pc = "creating" /\ ch'[h].pc = "idle" /\ faults' = faults + 1)
            => (ch'[h].errorEmitted /\ Forwarded' = Forwarded
                  /\ pendingAudioChunk' = pendingAudioChunk)]_vars

\* C23 witness: of two chunks, the first lost its session create and raised an
\* error without being forwarded; the second created the session, started the
\* timer and was buffered for the connection that is not yet open.
C23_Witness ==
  /\ \E h \in ChunkSlots : ch[h].errorEmitted
  /\ Forwarded = {2} /\ pendingAudioChunk = 2
  /\ sessionCreated /\ dbSession = 1
  /\ enableLivePolishing /\ DOMAIN polishingTimers = {1}
\* Attempt a's completion update succeeds in this step and the attempt returns
\* success.
Completes(a) ==
  att[a].pc = "finalize" /\ att'[a].pc = "done" /\ att'[a].status = "success"

\* C24: when attemptPolishing returns success after processing a non-empty
\* backlog, the session has lastPolishedAt set, lastPolishedIndex equal to the
\* returned polishedCount (the segments written in this run), polishingStatus
\* idle and isPolishing false.
C24_CompletionRecorded ==
  [][\A a \in Attempts :
       Completes(a) =>
         LET s == sessions'[att[a].sid] IN
         /\ att[a].backlog # <<>>
         /\ s.lastPolishedAt = "set"
         /\ s.lastPolishedIndex = att'[a].polishedCount
         /\ att'[a].polishedCount = att[a].total
         /\ s.polishingStatus = "idle"
         /\ ~s.isPolishing]_vars

\* C24 witness: a timer attempt has returned success with polishedCount 5 and
\* the session records it.
C24_Witness ==
  /\ att["timer"].pc = "done" /\ att["timer"].status = "success"
  /\ att["timer"].polishedCount = 5
  /\ LET s == sessions[att["timer"].sid] IN
       /\ s.lastPolishedAt = "set" /\ s.lastPolishedIndex = 5
       /\ s.polishingStatus = "idle" /\ ~s.isPolishing
\* C25: attemptPolishing writes a segment's polishedTranslation at most once:
\* a segment that has a polishedTranslation is in no backlog taken afterwards,
\* and no group update of attemptPolishing overwrites one.
C25_PolishedOnce ==
  [][\A a \in Attempts :
       /\ (att[a].pc = "acquire" /\ att'[a].pc # "acquire")
            => \A k \in DOMAIN att'[a].backlog :
                 segments[att'[a].backlog[k]].pol = NULL
       /\ Writes(a)
            => \A k \in DOMAIN GroupOf(a) : segments[GroupOf(a)[k]].pol = NULL]_vars
\* C26: when a manual attemptPolishing returns success, every segment of the
\* backlog it read at lock acquisition has a polishedTranslation and
\* polishedCount is the size of that backlog, in one-way and two-way sessions
\* (two-way segments without a translationDirection included).
C26_ManualPolishesBacklog ==
  [][\A a \in Attempts :
       (Completes(a) /\ att[a].manual)
         => /\ \A k \in DOMAIN att[a].backlog :
                 segments'[att[a].backlog[k]].pol # NULL
            /\ att'[a].polishedCount = Len(att[a].backlog)]_vars
\* C27: once every final-transcript handler has finished and no store operation
\* has failed, each session's segmentCount is the number of segments persisted
\* for it.
C27_CountMatchesSegments ==
  ((\A t \in Handlers : th[t].pc = "idle") /\ faults = 0)
    => \A s \in SessionIds :
         sessions[s].exists => sessions[s].segmentCount = Len(SegmentsOf(s))
\* Handler t's segment create or counter increment throws in this step.
SaveFails(t) ==
  /\ th[t].pc \in {"creating", "counting"}
  /\ th'[t] # th[t]
  /\ faults' = faults + 1

\* C28: when persisting a segment fails (the create or the increment throws)
\* the handler still emits the segment's translation event and no error event,
\* leaves the socket and the upstream connection alone, and a later transcript
\* can be handled.
C28_SaveFailureNotFatal ==
  /\ [][\A t \in Handlers :
          SaveFails(t) => /\ th'[t].pc = "idle"
                          /\ th'[t].emitted = "translation"
                          /\ socket' = socket /\ dg' = dg
                          /\ dgConnectionReady' = dgConnectionReady]_vars
  /\ [](\A t \in Handlers : th[t].pc = "idle" => ENABLED TranscriptFinal(t, NULL))

\* C28 witness: the first transcript's segment create failed and its
\* translation was emitted; the second transcript has been persisted since.
C28_Witness ==
  /\ faults = 1
  /\ \E t \in Handlers : th[t].pc = "idle" /\ th[t].emitted = "translation"
  /\ \A i \in SegIds : segments[i].seq # 1
  /\ \E i \in SegIds : segments[i].seq = 2
  /\ sessions[1].segmentCount = 1
\* Handler t's instant translation throws in this step: with a session held, a
\* handler that returns straight from the translation has caught a failure.
TranslationFails(t) ==
  /\ th[t].pc = "translating" /\ th'[t].pc = "idle"
  /\ sessionCreated /\ dbSession # 0

\* C29: when the instant translation of a final transcript fails, the client
\* gets an error event and no translation event, no segment is persisted,
\* segmentCount is unchanged, and neither the socket nor the upstream
\* connection is closed.
C29_TranslationFailure ==
  [][\A t \in Handlers :
       TranslationFails(t) => /\ th'[t].emitted = "error"
                              /\ segments' = segments
                              /\ sessions' = sessions
                              /\ socket' = socket /\ dg' = dg
                              /\ dgConnectionReady' = dgConnectionReady]_vars

\* C29 witness: a transcript's translation failed: the error was emitted,
\* nothing is persisted, and the socket and the upstream connection are open.
C29_Witness ==
  /\ \E t \in Handlers : th[t].pc = "idle" /\ th[t].emitted = "error"
  /\ segments = <<>> /\ sessions[1].segmentCount = 0 /\ faults = 0
  /\ socket = "connected" /\ dg[dgConnection].state = "open" /\ dgConnectionReady

\* An Error handler runs: its 'error' event is emitted to the client.
ErrorHandled == ~dgErrorEmitted /\ dgErrorEmitted'

\* The handler of the first audio chunk after an Error event reaches
\* server.ts:485 and buffers or sends the chunk.
NextChunkForwarded ==
  dgErrorEmitted /\ ~dgErrorEmitted' /\ Forwarded' # Forwarded

\* The upstream connection is recreated: a new connection is created and held.
Recreated == Len(dg') = Len(dg) + 1 /\ dgConnection' = Len(dg')

\* C30: an upstream Error event marks the connection not ready and emits
\* 'error' to the client, and leaves the session, its polish timer and the
\* socket as they are; the next audio chunk that is forwarded recreates the
\* upstream connection.
C30_ErrorRecovers ==
  [][/\ ErrorHandled =>
          /\ ~dgConnectionReady'
          /\ UNCHANGED <<sessions, segments, polishingTimers, socket, sessVars>>
     /\ NextChunkForwarded => Recreated]_vars

\* a is running when the socket has disconnected.
RunsAtDisconnect(a) == socket = "disconnected" /\ Running(a)

\* a has returned and its session id is not in the in-memory set.
Finished(a) ==
  att[a].pc = "done" /\ att[a].sid \notin activePolishingSessions

\* C31 (as claimed): an invocation that is running when the socket disconnects
\* runs to completion, and afterwards the session's isPolishing flag is false
\* and its id is not in activePolishingSessions.
C31_DisconnectDoesNotCancel ==
  /\ \A a \in Attempts : RunsAtDisconnect(a) ~> Finished(a)
  /\ [][\A a \in Attempts :
          (RunsAtDisconnect(a) /\ Returns(a))
          => ~sessions'[att[a].sid].isPolishing]_vars

\* C31 (amended): an invocation that is running when the socket disconnects
\* runs to completion and its session id leaves activePolishingSessions; a lock
\* holder ends with an unlock write and the isPolishing flag is false when it
\* returns unless that unlock write itself failed.
C31_DisconnectLetsAttemptFinish ==
  /\ \A a \in Attempts : RunsAtDisconnect(a) ~> Finished(a)
  /\ [][\A a \in Attempts :
          (RunsAtDisconnect(a) /\ Holding(a) /\ Returns(a))
          => /\ att[a].pc \in {"release", "finalize"}
             /\ (faults' = faults => ~sessions'[att[a].sid].isPolishing)]_vars

\* C31 witness: the socket has disconnected and the disconnect handler has
\* finished (the session lives on, its duration written) while an invocation
\* that wrote its segments holds the lock and awaits its completion update.
C31_Witness ==
  /\ socket = "disconnected" /\ disc.pc = "done"
  /\ sessions[1].exists /\ sessions[1].duration # NULL
  /\ att["manual"].pc = "finalize" /\ att["manual"].total > 0
  /\ sessions[1].isPolishing /\ 1 \in activePolishingSessions

\* C32: dgConnectionReady is true only while the connection held in
\* dgConnection is open (an event delivered late by a replaced connection
\* does not change the flag).
C32_ReadyDescribesHeld ==
  dgConnectionReady => (dgConnection # 0 /\ dg[dgConnection].state = "open")

TerminalEvents == {"polish-completed", "polish-busy", "polish-error"}

\* The events of a command that has been answered.
Answered(events) ==
  \/ events = <<"polish-error">>
  \/ /\ Len(events) = 2
     /\ events[1] = "polish-started"
     /\ events[2] \in TerminalEvents

\* The handler takes a command in this step.
CommandArrives == cmd.pc = "idle" /\ cmd'.pc # "idle"

\* C33: every polish-current-session command is answered by exactly one of
\* polish-completed, polish-busy and polish-error; with a session polish-started
\* is emitted first; without one only polish-error is emitted and no polish
\* is attempted.
C33_CommandAnswered ==
  /\ [](cmd.pc = "done" => Answered(cmd.events))
  /\ [](cmd.pc # "done" =>
         \A k \in DOMAIN cmd.events : cmd.events[k] \notin TerminalEvents)
  /\ (cmd.pc \in {"awaiting", "reading"}) ~> (cmd.pc = "done")
  /\ [][CommandArrives =>
          IF sessionCreated /\ dbSession # 0
          THEN cmd'.events = <<"polish-started">>
          ELSE /\ cmd'.pc = "done" /\ cmd'.events = <<"polish-error">>
               /\ UNCHANGED <<mgrVars, storeVars>>]_vars

\* C33 witness: a command for a session with a segment has been answered by
\* polish-started and then polish-completed.
C33_Witness ==
  /\ cmd.pc = "done"
  /\ cmd.events = <<"polish-started", "polish-completed">>
  /\ \E i \in SegIds : segments[i].pol # NULL

\* The invocations for session s that are between the add of
\* polishing-buffer.ts:141 and the finally block.
RunningFor(s) == {a \in Attempts : Running(a) /\ att[a].sid = s}

\* C34: a session id is in activePolishingSessions exactly while one
\* attemptPolishing invocation for it is between its add and its finally
\* block; when none is running the id is absent, whatever the exit path was.
C34_ActiveSetTracksInvocation ==
  \A s \in SessionIds :
    /\ s \in activePolishingSessions <=> RunningFor(s) # {}
    /\ Cardinality(RunningFor(s)) <= 1

\* C34 witness: an invocation has returned busy after its lock update matched
\* no row, no invocation is running and the set is empty.
C34_Witness ==
  /\ \E a \in Attempts :
       att[a].pc = "done" /\ att[a].status = "busy" /\ ~att[a].fast
  /\ \A a \in Attempts : ~Running(a)
  /\ activePolishingSessions = {}

\* C35: in every reachable state the persisted lock flag and the polishing
\* status of a session agree: isPolishing is true if and only if
\* polishingStatus is processing.
C35_FlagMatchesStatus ==
  \A s \in SessionIds :
    sessions[s].exists =>
      (sessions[s].isPolishing <=> sessions[s].polishingStatus = "processing")

\* C35 witness: an invocation holds the lock, with status processing, after an
\* earlier one completed and unlocked the session (lastPolishedAt is set).
C35_Witness ==
  \E s \in SessionIds :
    /\ sessions[s].isPolishing /\ sessions[s].polishingStatus = "processing"
    /\ sessions[s].lastPolishedAt # NULL
    /\ \E a \in Attempts : Holding(a) /\ att[a].sid = s

\* The live timers of session s.
LiveFor(s) == {i \in intervals : i.sid = s}

\* C36: after any sequence of startBackgroundPolishing, stopBackgroundPolishing
\* and stopAllBackgroundPolishing calls there is at most one live timer per
\* session id and every live timer is the one recorded for its session in the
\* map; without enableLivePolishing no timer is installed.
C36_OneTimerPerSession ==
  /\ \A s \in SessionIds : Cardinality(LiveFor(s)) <= 1
  /\ \A i \in intervals :
       i.sid \in DOMAIN polishingTimers /\ polishingTimers[i.sid] = i.id
  /\ ~enableLivePolishing => (intervals = {} /\ polishingTimers = EmptyMap)

\* C36 witness: the connection has disconnected, which stopped the timer of
\* its session; the other session id has a timer, started by a direct call,
\* which is the only live one and has ticked.
C36_Witness ==
  /\ socket = "disconnected" /\ sessionCreated /\ dbSession = 1
  /\ DOMAIN polishingTimers = {2}
  /\ intervals = {[id |-> polishingTimers[2], sid |-> 2]}
  /\ att["timer"].pc = "done" /\ att["timer"].sid = 2

\* The provider's reply to call c arrives in this step.
Settles(c) == tr[c].pc = "fetching" /\ tr'[c].pc # "fetching"

\* C37: the translation cache never holds more entries than its capacity; an
\* insertion into a full cache removes the entry that was inserted earliest and
\* appends the new one; a failed provider call leaves the cache as it is.
C37_CacheBoundedFifo ==
  /\ [](Len(translationCache) <= MaxCacheSize)
  /\ [][\A c \in Calls :
          Settles(c) =>
            /\ tr'[c].pc = "thrown" => translationCache' = translationCache
            /\ (/\ tr'[c].pc = "returned"
                /\ tr[c].key \notin CacheKeys(translationCache)
                /\ Len(translationCache) = MaxCacheSize)
               => translationCache' =
                    Append(Tail(translationCache),
                           [key |-> tr[c].key, val |-> tr'[c].result])]_vars

\* C37 witness: the cache is full and a key that a successful call stored has
\* been evicted from it; a call whose request failed has thrown.
C37_Witness ==
  /\ Len(translationCache) = MaxCacheSize
  /\ \E key \in stored : key \notin CacheKeys(translationCache)
  /\ \E c \in Calls : tr[c].pc = "thrown"

\* Call c is made in this step.
CallMade(c) == tr[c].pc = "idle" /\ tr'[c].pc # "idle"

\* C38: translateWithLibreTranslate calls the provider if and only if the text
\* is not blank and no earlier successful call stored a result for the same
\* (source, target, text); a blank text returns the empty string and a repeated
\* key the stored translation, both without a provider call or a cache change.
C38_ProviderCalledOnce ==
  [][\A c \in Calls :
       CallMade(c) =>
         LET key == tr'[c].key
             fresh == ~IsBlank(key[3]) /\ key \notin stored
         IN  /\ tr'[c].pc = "fetching" <=> fresh
             /\ IsBlank(key[3]) => tr'[c].result = ""
             /\ translationCache' = translationCache]_vars

\* C39 as claimed: a reply in the [SEGMENT_i] ... [END_SEGMENT_i] format is
\* parsed into the map from i - 1 to the trimmed text of segment i by the
\* route's parser and by the polishing coordinator's parser alike.
C39_BothParsersReadMarkers ==
  parse.format = "markers" =>
    /\ parse.routeDone => parse.route = Expected(parse.texts)
    /\ parse.managerDone => parse.manager = Expected(parse.texts)

\* C39 amended: the route's parser reads the [SEGMENT_i] ... [END_SEGMENT_i]
\* format and the coordinator's parser the numbered format [i] text, each
\* giving the map from i - 1 to the trimmed text of segment i whatever the
\* white space around markers and texts; the coordinator's parser finds no
\* segment in a reply of the marker format; each result is a function of the
\* reply alone.
C39_EachParserReadsItsFormat ==
  /\ parse.routeDone =>
       /\ parse.route = segmentPattern(parse.reply)
       /\ parse.format = "markers" => parse.route = Expected(parse.texts)
  /\ parse.managerDone =>
       /\ parse.manager = parsePolishedResult(parse.reply)
       /\ parse.format = "numbered" => parse.manager = Expected(parse.texts)
       /\ parse.format = "markers" => parse.manager = EmptyMap

\* C39 witness: both parsers have run on a reply of two different segments in
\* the marker format with white space around markers and texts; the route's
\* parser returned both texts and the coordinator's parser none.
C39_Witness ==
  /\ parse.format = "markers" /\ parse.routeDone /\ parse.managerDone
  /\ Len(parse.texts) = 2 /\ parse.texts[1] # parse.texts[2]
  /\ \E k \in 2..Len(parse.reply) :
       parse.reply[k] \in WhiteSpace /\ parse.reply[k - 1] = "]"
  /\ parse.route = Expected(parse.texts)
  /\ DOMAIN parse.route = {0, 1}
  /\ parse.manager = EmptyMap

====
